---------------------------- MODULE Spec2Model ----------------------------
(***************************************************************************)
(* A model of the PDF text-to-record extractor, src/Extractor.py           *)
(* (class FHFDataExtractor), of the report scraper, src/src/mec_scraper.py *)
(* and of the multi-year download run, src/step8_allyears.py.              *)
(*                                                                         *)
(* A Python str is a sequence of one-character strings, so that the        *)
(* regular expressions and string methods of the source are computed       *)
(* character by character.  A Python dict whose key order is observable    *)
(* (a row handed to pandas) is a sequence of <<key, value>> pairs in       *)
(* insertion order; a dict that is only read by key is a function.         *)
(* A float parsed from decimal text is the exact decimal [n, k] = n/10^k.  *)
(***************************************************************************)
EXTENDS Integers, Sequences, FiniteSets, TLC

VARIABLES
    tbl,              \* the frame of one parse_*_table call (its locals)
    folder,           \* the downloads folder: file name -> PDF content
    listing,          \* os.listdir(downloads_folder), in the order it answers
    pc,               \* where extract_all_data stands
    pdf_files,        \* extract_all_data: the local pdf_files
    idx,              \* extract_all_data: files of pdf_files already looped over
    all_reports,      \* extract_all_data: the local all_reports (a dict)
    report_summaries, \* self.report_summaries
    contributions,    \* self.contributions
    expenditures,     \* self.expenditures
    csv,              \* the CSV files written so far: name -> columns and rows
    clock,            \* datetime.now() calls made so far
    runs,             \* completed extract_all_data calls
    call,             \* one call of parse_amount, parse_cover_page or
                      \* extract_summary_data: argument and result
    scraper,          \* MECReportScraper.get_committee_reports: the scraper and its locals
    step8             \* run_step_8_multi_year: the downloads directory and the locals

vars == <<tbl, folder, listing, pc, pdf_files, idx, all_reports,
          report_summaries, contributions, expenditures, csv, clock, runs, call, scraper, step8>>

-----------------------------------------------------------------------------
(* Characters and the string methods the source uses.                      *)

Digit == {"0","1","2","3","4","5","6","7","8","9"}

UpperAZ == {"A","B","C","D","E","F","G","H","I","J","K","L","M",
            "N","O","P","Q","R","S","T","U","V","W","X","Y","Z"}

LowerAZ == {"a","b","c","d","e","f","g","h","i","j","k","l","m",
            "n","o","p","q","r","s","t","u","v","w","x","y","z"}

Letter == UpperAZ \cup LowerAZ

Whitespace == {" ", "\t", "\n", "\r", "\f"}

MinOf(S) == CHOOSE x \in S : \A y \in S : x <= y

MaxOf(S) == CHOOSE x \in S : \A y \in S : x >= y

\* s[k], or a value that is no character when k is outside s
At(s, k) == IF k \in 1..Len(s) THEN s[k] ELSE "<none>"

\* s.startswith(p)
StartsWith(s, p) == Len(p) <= Len(s) /\ SubSeq(s, 1, Len(p)) = p

\* p occurs in s at position k
OccursAt(s, k, p) ==
    k >= 1 /\ k + Len(p) - 1 <= Len(s) /\ SubSeq(s, k, k + Len(p) - 1) = p

\* the positions k at which p occurs in s
Occurrences(s, p) == {k \in 1..(Len(s) - Len(p) + 1) : OccursAt(s, k, p)}

\* p in s
Contains(s, p) == Occurrences(s, p) # {}

\* s.strip()
Strip(s) ==
    LET keep == {k \in 1..Len(s) : s[k] \notin Whitespace}
    IN  IF keep = {} THEN <<>> ELSE SubSeq(s, MinOf(keep), MaxOf(keep))

\* s.split(sep), sep not empty
RECURSIVE Split(_, _)
Split(s, sep) ==
    LET cut(occ) ==
            IF occ = {} THEN <<s>>
            ELSE <<SubSeq(s, 1, MinOf(occ) - 1)>>
                     \o Split(SubSeq(s, MinOf(occ) + Len(sep), Len(s)), sep)
    IN  cut(Occurrences(s, sep))

\* sep.join(parts)
RECURSIVE Join(_, _)
Join(parts, sep) ==
    IF parts = <<>> THEN <<>>
    ELSE IF Len(parts) = 1 THEN parts[1]
    ELSE parts[1] \o sep \o Join(Tail(parts), sep)

\* the last index of the run of characters of class C that starts at k
RunEnd(s, k, C) == MinOf({t \in k..Len(s) : At(s, t + 1) \notin C})

-----------------------------------------------------------------------------
(* parse_amount and the exact decimals it returns.                         *)

\* c.lower() for one character
LowerChar(c) ==
    IF c \in UpperAZ
    THEN LET alpha == <<"a","b","c","d","e","f","g","h","i","j","k","l","m",
                        "n","o","p","q","r","s","t","u","v","w","x","y","z">>
             upper == <<"A","B","C","D","E","F","G","H","I","J","K","L","M",
                        "N","O","P","Q","R","S","T","U","V","W","X","Y","Z">>
         IN  alpha[CHOOSE n \in 1..26 : upper[n] = c]
    ELSE c

Lower(s) == [n \in 1..Len(s) |-> LowerChar(s[n])]

DigitChars == <<"0","1","2","3","4","5","6","7","8","9">>

DigitVal(c) == (CHOOSE v \in 1..10 : DigitChars[v] = c) - 1

RECURSIVE DigitsVal(_)
DigitsVal(d) ==
    IF d = <<>> THEN 0
    ELSE DigitsVal(SubSeq(d, 1, Len(d) - 1)) * 10 + DigitVal(d[Len(d)])

\* n / 10^k without trailing zeros in the fraction, so that equal numbers are equal values
RECURSIVE Normal(_, _)
Normal(n, k) ==
    IF k > 0 /\ n % 10 = 0 THEN Normal(n \div 10, k - 1) ELSE [n |-> n, k |-> k]

Zero == [n |-> 0, k |-> 0]

\* float('nan') and float('inf'): nan > 0 is False and inf > 0 is True
NaN == [n |-> 0, k |-> 0, special |-> "nan"]

Infinity == [n |-> 1, k |-> 0, special |-> "inf"]

\* float(s) for a str of digits, points and letters: the decimal texts the extractor's
\* patterns can capture (digits with at most one point and at least one digit) and the
\* names nan, inf and infinity in any case; ok is FALSE where float() raises ValueError.
\* Signs, exponents, underscores and blanks are not among the characters modelled.
FloatOf(s) ==
    LET float(points, whole, frac) ==
            IF /\ Cardinality(points) <= 1
               /\ \A k \in 1..Len(s) : s[k] \in Digit \cup {"."}
               /\ Len(whole) + Len(frac) >= 1
            THEN [ok |-> TRUE, v |-> Normal(DigitsVal(whole \o frac), Len(frac))]
            ELSE [ok |-> FALSE, v |-> Zero]
        cut(points, p) == float(points, SubSeq(s, 1, p - 1), SubSeq(s, p + 1, Len(s)))
        at(points) == cut(points, IF points = {} THEN Len(s) + 1 ELSE MinOf(points))
        named(low) ==
            IF low = <<"n","a","n">> THEN [ok |-> TRUE, v |-> NaN]
            ELSE IF low \in {<<"i","n","f">>, <<"i","n","f","i","n","i","t","y">>}
                THEN [ok |-> TRUE, v |-> Infinity]
            ELSE at({k \in 1..Len(s) : s[k] = "."})
    IN  named(Lower(s))

parse_amount(amount_str) ==
    IF amount_str = <<>> THEN Zero
    ELSE LET clean_amount == SelectSeq(amount_str, LAMBDA c : c \notin {",", "$"})
             value(f) == IF f.ok THEN f.v ELSE Zero
         IN  value(FloatOf(clean_amount))

\* amount > 0
Positive(amount) == amount.n > 0

-----------------------------------------------------------------------------
(* The regular expressions of the two table parsers.                       *)

\* \d{1,2}/\d{1,2}/\d{4} matched at position k: the length matched, 0 when it does not
DateAt(s, k) ==
    LET field(p) == IF At(s, p) \in Digit /\ At(s, p + 1) \in Digit /\ At(s, p + 2) = "/"
                        THEN 2
                    ELSE IF At(s, p) \in Digit /\ At(s, p + 1) = "/" THEN 1
                    ELSE 0
        year(m, d) == IF m # 0 /\ d # 0 /\ \A t \in 0..3 : At(s, k + m + d + 2 + t) \in Digit
                      THEN m + d + 6 ELSE 0
        day(m) == year(m, IF m = 0 THEN 0 ELSE field(k + m + 1))
    IN  day(field(k))

\* the first match of the date pattern that strptime accepts, or the first match
DateSearchValid(s) ==
    LET group(k) == SubSeq(s, k, k + DateAt(s, k) - 1)
        good(m, d, y) == m \in 1..12 /\ y >= 1 /\ d \in 1..28
        valid(parts) == good(DigitsVal(parts[1]), DigitsVal(parts[2]), DigitsVal(parts[3]))
        first(at, ok) == IF at = {} THEN <<>>
                         ELSE IF ok # {} THEN group(MinOf(ok)) ELSE group(MinOf(at))
        pick(at) == first(at, {k \in at : valid(Split(group(k), <<"/">>))})
    IN  pick({k \in 1..Len(s) : DateAt(s, k) > 0})

\* re.search(r'(\d{1,2}/\d{1,2}/\d{4})', s): group(1), or <<>> for no match
DateSearch(s) ==
    LET group(k, n) == SubSeq(s, k, k + n - 1)
        first(at) == IF at = {} THEN <<>> ELSE group(MinOf(at), DateAt(s, MinOf(at)))
    IN  first({k \in 1..Len(s) : DateAt(s, k) > 0})

\* re.search(r'\$?\s*([\d,]+\.?\d*)', s) and re.search(r'([\d,]+\.?\d*)', s):
\* group(1), or <<>> for no match.  The group starts at the first digit or comma.
AmountSearch(s) ==
    LET group(f, e) ==
            SubSeq(s, f, IF At(s, e + 1) # "." THEN e
                         ELSE IF At(s, e + 2) \in Digit THEN RunEnd(s, e + 2, Digit)
                         ELSE e + 1)
        from(f) == group(f, RunEnd(s, f, Digit \cup {","}))
        first(at) == IF at = {} THEN <<>> ELSE from(MinOf(at))
    IN  first({k \in 1..Len(s) : s[k] \in Digit \cup {","}})

StreetSuffixes ==
    { <<"D","r">>, <<"R","d">>, <<"S","t">>, <<"A","v","e">>, <<"L","a","n","e">>,
      <<"C","i","r","c","l","e">>, <<"C","o","u","r","t">>,
      <<"S","t","r","e","e","t">> }

\* re.match(r'\d+.*(?:Dr|Rd|St|Ave|Lane|Circle|Court|Street)', s)
AddressMatch(s) ==
    /\ At(s, 1) \in Digit
    /\ \E suffix \in StreetSuffixes : \E k \in Occurrences(s, suffix) :
          /\ k >= 2
          /\ \A t \in 2..(k - 1) : s[t] # "\n"

\* re.search(r'[A-Za-z\s]+\s+[A-Z]{2}\s+\d{5}', s)
CityStateMatch(s) ==
    \E c \in 3..Len(s) :
       /\ s[c - 2] \in Letter \cup Whitespace
       /\ s[c - 1] \in Whitespace
       /\ At(s, c) \in UpperAZ /\ At(s, c + 1) \in UpperAZ
       /\ At(s, c + 2) \in Whitespace
       /\ LET z == RunEnd(s, c + 2, Whitespace) + 1
          IN  \A t \in 0..4 : At(s, z + t) \in Digit

\* re.search(r'^([a-zA-Z\s]+)\s+([\d.]+)$', s): <<group(1), group(2)>>, or <<>>
PurposeMatch(s) ==
    LET groups(t) ==
            IF /\ t >= 3
               /\ \A u \in 1..(t - 1) : s[u] \in Letter \cup Whitespace
               /\ s[t - 1] \in Whitespace
            THEN <<SubSeq(s, 1, t - 2), SubSeq(s, t, Len(s))>>
            ELSE <<>>
        from(tail) == IF tail = {} THEN <<>> ELSE groups(MinOf(tail))
    IN  from({t \in 1..Len(s) : \A u \in t..Len(s) : s[u] \in Digit \cup {"."}})

-----------------------------------------------------------------------------
(* Python dicts.                                                           *)

\* d[k] = v for a dict that is only read by key
Put(d, k, v) == (k :> v) @@ d

\* d.get(k, default) for a dict that is only read by key
Get(d, k, default) == IF k \in DOMAIN d THEN d[k] ELSE default

\* the keys of an ordered dict, in insertion order
Keys(row) == [n \in 1..Len(row) |-> row[n][1]]

\* row[k] for an ordered dict that has the key
Field(row, k) == row[CHOOSE n \in 1..Len(row) : row[n][1] = k][2]

\* row[k] = v for an ordered dict: an existing key keeps its place, a new one goes last
SetField(row, k, v) ==
    IF \E n \in 1..Len(row) : row[n][1] = k
    THEN [n \in 1..Len(row) |-> IF row[n][1] = k THEN <<k, v>> ELSE row[n]]
    ELSE Append(row, <<k, v>>)

-----------------------------------------------------------------------------
(* parse_contributions_table and parse_expenditures_table.  The frame of a *)
(* call is a record of its locals; i and j are the source's 0-based        *)
(* indices, so lines[i] of the source is lines[i + 1] here.                *)

ContribWindow == 10

ExpendWindow == 15

MaxHeaderLen == 100

MinHeaderLen == 2

ContribLabelPrefixes ==
    { <<"N","A","M","E",":">>, <<"A","D","D","R","E","S","S",":">>, <<"C","I","T","Y">>,
      <<"E","M","P","L","O","Y","E","R",":">>, <<"C","O","M","M","I","T","T","E","E",":">>,
      <<"$">>, <<"M","O","N","E","T","A","R","Y">>, <<"I","N","-","K","I","N","D">> }

ExpendLabelPrefixes ==
    { <<"N","A","M","E",":">>, <<"A","D","D","R","E","S","S",":">>, <<"C","I","T","Y">>,
      <<"$">>, <<"P","A","I","D">>, <<"I","N","C","U","R","R","E","D">> }

\* the test of a contributor name line
C_IsHeader(line) ==
    /\ line # <<>>
    /\ ~ \E p \in ContribLabelPrefixes : StartsWith(line, p)
    /\ ~ Contains(line, <<"S","U","B","T","O","T","A","L">>)
    /\ ~ Contains(line, <<"T","O","T","A","L">>)
    /\ Len(line) < MaxHeaderLen
    /\ Len(line) > MinHeaderLen

\* the test of a vendor name line
E_IsHeader(line) ==
    /\ line # <<>>
    /\ ~ \E p \in ExpendLabelPrefixes : StartsWith(line, p)
    /\ ~ Contains(line, <<"S","U","B","T","O","T","A","L">>)
    /\ ~ Contains(line, <<"T","O","T","A","L">>)
    /\ ~ Contains(line, <<"P","U","R","P","O","S","E">>)
    /\ Len(line) < MaxHeaderLen
    /\ Len(line) > MinHeaderLen

\* the locals of a call, after lines = text.split('\n') and i = 0
TableStart(kind, text) ==
    [kind |-> kind, lines |-> Split(text, <<"\n">>), i |-> 0, j |-> 0,
     data |-> <<>>, out |-> <<>>, pc |-> "outer"]

\* one test of the outer while loop at a line i < len(lines)
C_Header(f) ==
    LET line == Strip(f.lines[f.i + 1])
    IN  IF C_IsHeader(line)
        THEN [f EXCEPT !.data = [name |-> line], !.j = f.i + 1, !.pc = "window"]
        ELSE [f EXCEPT !.i = f.i + 1]

E_Header(f) ==
    LET line == Strip(f.lines[f.i + 1])
    IN  IF E_IsHeader(line)
        THEN [f EXCEPT !.data = [vendor |-> line], !.j = f.i + 1, !.pc = "window"]
        ELSE [f EXCEPT !.i = f.i + 1]

\* C_InWindow for a window that ends five lines after the candidate
C_InWindowShort(f) == f.j < MinOf({f.i + 5, Len(f.lines)})

\* the condition of the inner while loop
C_InWindow(f) == f.j < MinOf({f.i + ContribWindow, Len(f.lines)})

E_InWindow(f) == f.j < MinOf({f.i + ExpendWindow, Len(f.lines)})

\* the amount of a date line of the contributions table
C_DateLineAmount(f, data, next_line) ==
    LET found(amount_match) ==
            amount_match # <<>> /\ Positive(parse_amount(amount_match))
        set(amount_match) == Put(data, "amount", parse_amount(amount_match))
        try(here, before, after) ==
            IF here # <<>> THEN set(here)
            ELSE IF found(before) THEN set(before)
            ELSE IF found(after) THEN set(after)
            ELSE data
    IN  try(AmountSearch(next_line),
            AmountSearch(IF f.j > 0 THEN f.lines[f.j] ELSE <<>>),
            AmountSearch(IF f.j + 1 < Len(f.lines) THEN f.lines[f.j + 2] ELSE <<>>))

\* one pass of the inner while loop of parse_contributions_table
C_WindowLine(f) ==
    LET next_line == Strip(f.lines[f.j + 1])
        d == f.data
        work(parts) ==
            IF Len(parts) >= 2
            THEN Put(Put(d, "employer", Strip(parts[1])), "occupation", Strip(parts[2]))
            ELSE d
        data(date_match) ==
            IF AddressMatch(next_line) /\ "address" \notin DOMAIN d
                THEN Put(d, "address", next_line)
            ELSE IF CityStateMatch(next_line) /\ "city_state" \notin DOMAIN d
                THEN Put(d, "city_state", next_line)
            ELSE IF Contains(next_line, <<" ","-","-"," ">>) /\ "occupation" \notin DOMAIN d
                THEN work(Split(next_line, <<" ","-","-"," ">>))
            ELSE IF date_match # <<>>
                THEN C_DateLineAmount(f, Put(d, "date", date_match), next_line)
            ELSE d
    IN  [f EXCEPT !.data = data(DateSearch(next_line)), !.j = f.j + 1]

\* one pass of the inner while loop of parse_expenditures_table
E_WindowLine(f) ==
    LET next_line == Strip(f.lines[f.j + 1])
        d == f.data
        paid(d1, amount_match) ==
            IF "amount" \notin DOMAIN d1 /\ amount_match # <<>>
            THEN Put(d1, "amount", parse_amount(amount_match))
            ELSE d1
        data(purpose_match, date_match) ==
            IF AddressMatch(next_line) /\ "address" \notin DOMAIN d
                THEN Put(d, "address", next_line)
            ELSE IF CityStateMatch(next_line) /\ "city_state" \notin DOMAIN d
                THEN Put(d, "city_state", next_line)
            ELSE IF purpose_match # <<>>
                THEN Put(Put(d, "purpose", Strip(purpose_match[1])),
                         "amount", parse_amount(purpose_match[2]))
            ELSE IF date_match # <<>>
                THEN paid(Put(d, "date", date_match), AmountSearch(next_line))
            ELSE d
    IN  [f EXCEPT !.data = data(PurposeMatch(next_line), DateSearch(next_line)),
                  !.j = f.j + 1]

\* address, then ', ' and city/state/zip when there is one
FullAddress(d) ==
    Get(d, "address", <<>>)
        \o (IF "city_state" \in DOMAIN d THEN <<",", " ">> \o d.city_state ELSE <<>>)

\* the record of a contributor, keys in the order the dict literal gives them
ContributionRecord(d) ==
    << <<"contributor_name", d.name>>,
       <<"contributor_address", FullAddress(d)>>,
       <<"date_received", Get(d, "date", <<>>)>>,
       <<"individual_amount", d.amount>>,
       <<"aggregate_amount", d.amount>>,
       <<"contribution_type", <<"M","o","n","e","t","a","r","y">> >>,
       <<"employer", Get(d, "employer", <<>>)>>,
       <<"occupation", Get(d, "occupation", <<>>)>> >>

ExpenditureRecord(d) ==
    << <<"expense_category", Get(d, "purpose", <<"G","e","n","e","r","a","l">>)>>,
       <<"amount", d.amount>>,
       <<"recipient_name", d.vendor>>,
       <<"recipient_address", FullAddress(d)>>,
       <<"purpose", Get(d, "purpose", <<>>)>>,
       <<"date_paid", Get(d, "date", <<>>)>> >>

\* C_Gate without the test amount > 0: a gate that takes any captured amount
C_GateAnyAmount(d) == "name" \in DOMAIN d /\ "amount" \in DOMAIN d

\* whether the window's data makes a record
C_Gate(d) == "name" \in DOMAIN d /\ "amount" \in DOMAIN d /\ Positive(d.amount)

\* E_Gate that asks for a date as well
E_GateDated(d) ==
    "vendor" \in DOMAIN d /\ "amount" \in DOMAIN d /\ Positive(d.amount) /\ "date" \in DOMAIN d

E_Gate(d) == "vendor" \in DOMAIN d /\ "amount" \in DOMAIN d /\ Positive(d.amount)

\* C_Emit that moves the cursor to the window end only when a record is made
C_EmitStay(f) ==
    [f EXCEPT !.out = IF C_Gate(f.data) THEN Append(@, ContributionRecord(f.data)) ELSE @,
              !.i = IF C_Gate(f.data) THEN f.j ELSE f.i + 1, !.pc = "outer"]

\* after the window: the record, if any, and i = j
C_Emit(f) ==
    [f EXCEPT !.out = IF C_Gate(f.data) THEN Append(@, ContributionRecord(f.data)) ELSE @,
              !.i = f.j, !.pc = "outer"]

\* E_Emit that leaves the cursor at the candidate when no record is made
E_EmitRescan(f) ==
    [f EXCEPT !.out = IF E_Gate(f.data) THEN Append(@, ExpenditureRecord(f.data)) ELSE @,
              !.i = IF E_Gate(f.data) THEN f.j ELSE f.i, !.pc = "outer"]

E_Emit(f) ==
    [f EXCEPT !.out = IF E_Gate(f.data) THEN Append(@, ExpenditureRecord(f.data)) ELSE @,
              !.i = f.j, !.pc = "outer"]

\* the next step of a call that has not returned
TableStep(f) ==
    IF f.pc = "outer"
    THEN IF f.i < Len(f.lines)
         THEN (IF f.kind = "contributions" THEN C_Header(f) ELSE E_Header(f))
         ELSE [f EXCEPT !.pc = "return"]
    ELSE IF f.kind = "contributions"
         THEN (IF C_InWindow(f) THEN C_WindowLine(f) ELSE C_Emit(f))
         ELSE (IF E_InWindow(f) THEN E_WindowLine(f) ELSE E_Emit(f))

RECURSIVE TableRun(_)
TableRun(f) == IF f.pc = "return" THEN f.out ELSE TableRun(TableStep(f))

parse_contributions_table(text) == TableRun(TableStart("contributions", text))

parse_expenditures_table(text) == TableRun(TableStart("expenditures", text))

-----------------------------------------------------------------------------
(* parse_cover_page.  A datetime is <<year, month, day, tick>>: tick is 0  *)
(* for a date read from text, and counts the datetime.now() calls for the  *)
(* time of the run, which is later than every date the modelled PDFs hold. *)

\* datetime.now() when c calls have been made before
Now(c) == <<2026, 11, 3, c + 1>>

\* a > b for two datetimes
Later(a, b) ==
    \E n \in 1..4 : a[n] > b[n] /\ \A m \in 1..(n - 1) : a[m] = b[m]

\* the days of a month of the Gregorian calendar
DaysInMonth(y, m) ==
    IF m \in {4, 6, 9, 11} THEN 30
    ELSE IF m = 2
         THEN (IF (y % 4 = 0 /\ y % 100 # 0) \/ y % 400 = 0 THEN 29 ELSE 28)
    ELSE 31

\* datetime.strptime(s, '%m/%d/%Y') for a match s of the date pattern:
\* ok is FALSE where strptime raises ValueError
Strptime(s) ==
    LET date(m, d, y) ==
            IF m \in 1..12 /\ y >= 1 /\ d \in 1..DaysInMonth(y, m)
            THEN [ok |-> TRUE, v |-> <<y, m, d, 0>>]
            ELSE [ok |-> FALSE, v |-> <<>>]
        of(parts) == date(DigitsVal(parts[1]), DigitsVal(parts[2]), DigitsVal(parts[3]))
    IN  of(Split(s, <<"/">>))

\* the cover text takes its file_date from datetime.now()
UsesNow(text) ==
    LET failed(date_match) == date_match = <<>> \/ ~ Strptime(date_match).ok
    IN  failed(DateSearch(text))

\* re.search(r'FROM\s+(\d{1,2}/\d{1,2}/\d{4})\s+THROUGH\s+(\d{1,2}/\d{1,2}/\d{4})', s):
\* <<group(1), group(2)>>, or <<>> for no match
PeriodSearch(s) ==
    LET from    == <<"F","R","O","M">>
        through == <<"T","H","R","O","U","G","H">>
        groups(a, la, b, lb) ==
            IF lb = 0 THEN <<>>
            ELSE <<SubSeq(s, a, a + la - 1), SubSeq(s, b, b + lb - 1)>>
        second(a, la, b) == groups(a, la, b, DateAt(s, b))
        word(a, la, t) ==
            IF ~ OccursAt(s, t, through) \/ At(s, t + Len(through)) \notin Whitespace
            THEN <<>>
            ELSE second(a, la, RunEnd(s, t + Len(through), Whitespace) + 1)
        gap(a, la) ==
            IF la = 0 \/ At(s, a + la) \notin Whitespace THEN <<>>
            ELSE word(a, la, RunEnd(s, a + la, Whitespace) + 1)
        first(a) == gap(a, DateAt(s, a))
        \* the match that starts at k, or <<>>
        at(k) ==
            IF At(s, k + 4) \notin Whitespace THEN <<>>
            ELSE first(RunEnd(s, k + 4, Whitespace) + 1)
        search(hits) == IF hits = {} THEN <<>> ELSE at(MinOf(hits))
    IN  search({k \in Occurrences(s, from) : at(k) # <<>>})

\* 'AMENDED' in text or 'AMENDING' in text
IsAmendment(text) ==
    \/ Contains(text, <<"A","M","E","N","D","E","D">>)
    \/ Contains(text, <<"A","M","E","N","D","I","N","G">>)

\* ReportType that looks for the amendment words before the quarterly phrase
ReportTypeAmendedFirst(text) ==
    IF IsAmendment(text)
        THEN <<"Q","u","a","r","t","e","r","l","y"," ","(","A","m","e","n","d","e","d",")">>
    ELSE IF Contains(text, <<"C","O","M","M","I","T","T","E","E"," ","Q","U","A","R","T","E","R",
                             "L","Y"," ","R","E","P","O","R","T">>)
        THEN <<"Q","u","a","r","t","e","r","l","y">>
    ELSE <<"U","n","k","n","o","w","n">>

\* ReportType that does not look for the amendment words
ReportTypeNoAmended(text) ==
    IF Contains(text, <<"C","O","M","M","I","T","T","E","E"," ","Q","U","A","R","T","E","R",
                        "L","Y"," ","R","E","P","O","R","T">>)
        THEN <<"Q","u","a","r","t","e","r","l","y">>
    ELSE <<"U","n","k","n","o","w","n">>

\* the report type of a cover text
ReportType(text) ==
    IF Contains(text, <<"C","O","M","M","I","T","T","E","E"," ","Q","U","A","R","T","E","R",
                        "L","Y"," ","R","E","P","O","R","T">>)
        THEN <<"Q","u","a","r","t","e","r","l","y">>
    ELSE IF IsAmendment(text)
        THEN <<"Q","u","a","r","t","e","r","l","y"," ","(","A","m","e","n","d","e","d",")">>
    ELSE <<"U","n","k","n","o","w","n">>

\* parse_cover_page(text), datetime.now() answering now
parse_cover_page(text, now) ==
    LET name_match == Contains(Lower(text), <<"f","r","a","n","c","i","s"," ","h","o","w",
                          "e","l","l"," ","f","a","m","i","l","i","e","s">>)
        file_date(date_match) ==
            IF date_match = <<>> \/ ~ Strptime(date_match).ok THEN now
            ELSE Strptime(date_match).v
        cover(period_match) ==
            [committee_name |->
                IF name_match
                THEN <<"F","r","a","n","c","i","s"," ","H","o","w","e","l","l"," ",
                       "F","a","m","i","l","i","e","s">>
                ELSE <<"U","n","k","n","o","w","n">>,
             file_date |-> file_date(DateSearch(text)),
             period_from |-> IF period_match # <<>> THEN period_match[1] ELSE <<>>,
             period_through |-> IF period_match # <<>> THEN period_match[2] ELSE <<>>,
             report_type |-> ReportType(text),
             is_amendment |-> IsAmendment(text)]
    IN  cover(PeriodSearch(text))

-----------------------------------------------------------------------------
(* extract_summary_data.  A pattern of a metric is a phrase a, a separator *)
(* and a phrase b, matched without regard to case, then [^$\d]*? and the   *)
(* number group.  The separator is "ws" for \s+, "any" for .*? and "none"  *)
(* for a pattern of one phrase.                                            *)

\* where the phrase of pattern p can end when it starts at k, as the index after it;
\* low is s in lower case
PhraseEnds(s, low, k, p) ==
    LET ea == k + Len(p.a)
    IN  IF ~ OccursAt(low, k, p.a) THEN {}
        ELSE IF p.sep = "none" THEN {ea}
        ELSE IF p.sep = "ws"
             THEN IF At(s, ea) \notin Whitespace THEN {}
                  ELSE LET b == RunEnd(s, ea, Whitespace) + 1
                       IN  IF OccursAt(low, b, p.b)
                           THEN {b + Len(p.b)} ELSE {}
        ELSE {b + Len(p.b) : b \in {c \in Occurrences(low, p.b) :
                                      c >= ea /\ \A t \in ea..(c - 1) : s[t] # "\n"}}

\* [^$\d]*? from e up to the first digit: the digit's index, 0 when a '$' or the
\* end of the text comes first
NumberStart(s, e) ==
    LET first(stop) ==
            IF stop = {} THEN 0
            ELSE IF s[MinOf(stop)] \in Digit THEN MinOf(stop) ELSE 0
    IN  first({q \in e..Len(s) : s[q] \in Digit \cup {"$"}})

\* (?:,\d{3})* from p: the index after the last group of a comma and three digits
RECURSIVE Thousands(_, _)
Thousands(s, p) ==
    IF At(s, p) = "," /\ \A t \in 1..3 : At(s, p + t) \in Digit
    THEN Thousands(s, p + 4) ELSE p

\* (\d{1,3}(?:,\d{3})*\.?\d*) matched at a digit q: group(1)
NumberGroup(s, q) ==
    LET digits(p3) ==
            SubSeq(s, q, IF At(s, p3) \in Digit THEN RunEnd(s, p3, Digit) ELSE p3 - 1)
        point(p2) == digits(IF At(s, p2) = "." THEN p2 + 1 ELSE p2)
    IN  point(Thousands(s, MinOf({q + 2, RunEnd(s, q, Digit)}) + 1))

\* re.search(pattern, s, re.IGNORECASE): group(1), or <<>> for no match
MetricSearch(s, p) ==
    LET group(e) == NumberGroup(s, NumberStart(s, e))
        search(low) ==
            LET good(k) == {e \in PhraseEnds(s, low, k, p) : NumberStart(s, e) # 0}
                first(starts) ==
                    IF starts = {} THEN <<>> ELSE group(MinOf(good(MinOf(starts))))
            IN  first({k \in Occurrences(low, p.a) : good(k) # {}})
    IN  search(Lower(s))

\* the patterns of the four metrics, each list in the order it is tried
SummaryPatterns ==
    [money_on_hand_beginning |->
        << [a |-> <<"m","o","n","e","y"," ","o","n"," ","h","a","n","d"," ","a","t"," ",
                    "t","h","e"," ","b","e","g","i","n","n","i","n","g">>,
            sep |-> "none", b |-> <<>>],
           [a |-> <<"b","e","g","i","n","n","i","n","g"," ","o","f">>, sep |-> "ws",
            b |-> <<"t","h","i","s"," ","r","e","p","o","r","t","i","n","g"," ",
                    "p","e","r","i","o","d">>] >>,
     money_on_hand_ending |->
        << [a |-> <<"m","o","n","e","y"," ","o","n"," ","h","a","n","d"," ","a","t"," ",
                    "t","h","e"," ","c","l","o","s","e">>,
            sep |-> "none", b |-> <<>>],
           [a |-> <<"c","l","o","s","e"," ","o","f"," ","t","h","i","s">>, sep |-> "ws",
            b |-> <<"r","e","p","o","r","t","i","n","g"," ","p","e","r","i","o","d">>] >>,
     monetary_receipts_period |->
        << [a |-> <<"a","l","l"," ","m","o","n","e","t","a","r","y"," ","c","o","n","t","r",
                    "i","b","u","t","i","o","n","s"," ","r","e","c","e","i","v","e","d">>,
            sep |-> "ws", b |-> <<"t","h","i","s"," ","p","e","r","i","o","d">>],
           [a |-> <<"m","o","n","e","t","a","r","y"," ","c","o","n","t","r","i","b","u","t",
                    "i","o","n","s">>,
            sep |-> "any", b |-> <<"t","h","i","s"," ","p","e","r","i","o","d">>] >>,
     total_expenditures_period |->
        << [a |-> <<"e","x","p","e","n","d","i","t","u","r","e","s"," ","m","a","d","e"," ",
                    "b","y"," ","c","a","s","h"," ","o","r"," ","c","h","e","c","k">>,
            sep |-> "ws", b |-> <<"t","h","i","s"," ","p","e","r","i","o","d">>],
           [a |-> <<"t","o","t","a","l"," ","a","l","l"," ","e","x","p","e","n","d","i","t",
                    "u","r","e","s"," ","m","a","d","e"," ","t","h","i","s"," ",
                    "p","e","r","i","o","d">>,
            sep |-> "none", b |-> <<>>] >>]

\* the metrics in the order the source extracts them
SummaryMetrics ==
    <<"money_on_hand_beginning", "money_on_hand_ending", "monetary_receipts_period",
      "total_expenditures_period">>

\* summary after the metrics from the n-th on were sought in page_text
RECURSIVE SummaryOfPage(_, _, _)
SummaryOfPage(page_text, summary, n) ==
    IF n > Len(SummaryMetrics) THEN summary
    ELSE LET metric == SummaryMetrics[n]
             found(first, second) ==
                 IF first # <<>> THEN Put(summary, metric, parse_amount(first))
                 ELSE IF second # <<>> THEN Put(summary, metric, parse_amount(second))
                 ELSE summary
         IN  SummaryOfPage(page_text,
                           found(MetricSearch(page_text, SummaryPatterns[metric][1]),
                                 MetricSearch(page_text, SummaryPatterns[metric][2])),
                           n + 1)

\* extract_summary_data without the break after the first page with the marker
extract_summary_every_page(pages) ==
    LET RECURSIVE from(_, _)
        from(n, summary) ==
            IF n > Len(pages) THEN summary
            ELSE from(n + 1,
                      IF Contains(pages[n], <<"R","E","P","O","R","T"," ","S","U","M","M","A",
                                              "R","Y">>)
                      THEN SummaryOfPage(pages[n], summary, 1) ELSE summary)
    IN  from(1, <<>>)

extract_summary_data(pages) ==
    LET marked == {n \in 1..Len(pages) :
                      Contains(pages[n], <<"R","E","P","O","R","T"," ","S","U","M","M","A",
                                           "R","Y">>)}
    IN  IF marked = {} THEN <<>> ELSE SummaryOfPage(pages[MinOf(marked)], <<>>, 1)

extract_contributions_data(pages) ==
    LET RECURSIVE from(_)
        from(n) ==
            IF n > Len(pages) THEN <<>>
            ELSE (IF Contains(pages[n], <<"C","O","N","T","R","I","B","U","T","I","O","N","S",
                                          " ","A","N","D"," ","L","O","A","N","S"," ",
                                          "R","E","C","E","I","V","E","D">>)
                  THEN parse_contributions_table(pages[n]) ELSE <<>>) \o from(n + 1)
    IN  from(1)

extract_expenditures_data(pages) ==
    LET RECURSIVE from(_)
        from(n) ==
            IF n > Len(pages) THEN <<>>
            ELSE (IF /\ Contains(pages[n], <<"E","X","P","E","N","D","I","T","U","R","E","S">>)
                     /\ \/ Contains(pages[n], <<"I","T","E","M","I","Z","E","D">>)
                        \/ Contains(pages[n], <<"S","U","P","P","L","E","M","E","N","T","A",
                                                "L">>)
                  THEN parse_expenditures_table(pages[n]) ELSE <<>>) \o from(n + 1)
    IN  from(1)

-----------------------------------------------------------------------------
(* extract_pdf_data, the loop body of extract_all_data, process_report_data *)
(* and create_csv_files.  A PDF is [broken, pages]: broken when opening it  *)
(* or extracting a page's text raises, pages the text extract_text() gives  *)
(* for each page, <<>> for a page that gives None or ''.                    *)

\* extract_pdf_data that returns None when page 1 gives no text
extract_pdf_data_page1(pdf, filename, now) ==
    IF pdf.broken THEN [kind |-> "raise", data |-> <<>>]
    ELSE LET with_text    == {n \in 1..Len(pdf.pages) : pdf.pages[n] # <<>>}
             text_content == SelectSeq(pdf.pages, LAMBDA text : text # <<>>)
             pages        == [n \in 1..Len(text_content) |->
                                 CHOOSE p \in with_text :
                                    Cardinality({q \in with_text : q <= p}) = n]
         IN  IF pdf.pages = <<>> \/ pdf.pages[1] = <<>>
             THEN [kind |-> "none", data |-> <<>>]
             ELSE [kind |-> "ok",
                   data |-> [filename |-> filename, pages |-> pages,
                             text_content |-> text_content,
                             summary |-> extract_summary_data(text_content),
                             contributions |-> extract_contributions_data(text_content),
                             expenditures |-> extract_expenditures_data(text_content)]
                            @@ parse_cover_page(text_content[1], now)]

\* the result of extract_pdf_data: an exception, None, or report_data
extract_pdf_data(pdf, filename, now) ==
    IF pdf.broken THEN [kind |-> "raise", data |-> <<>>]
    ELSE LET with_text    == {n \in 1..Len(pdf.pages) : pdf.pages[n] # <<>>}
             text_content == SelectSeq(pdf.pages, LAMBDA text : text # <<>>)
             pages        == [n \in 1..Len(text_content) |->
                                 CHOOSE p \in with_text :
                                    Cardinality({q \in with_text : q <= p}) = n]
         IN  IF text_content = <<>> THEN [kind |-> "none", data |-> <<>>]
             ELSE [kind |-> "ok",
                   data |-> [filename |-> filename, pages |-> pages,
                             text_content |-> text_content,
                             summary |-> extract_summary_data(text_content),
                             contributions |-> extract_contributions_data(text_content),
                             expenditures |-> extract_expenditures_data(text_content)]
                            @@ parse_cover_page(text_content[1], now)]

\* whether extract_pdf_data calls datetime.now() for this PDF
CallsNow(pdf) ==
    /\ ~ pdf.broken
    /\ \E n \in 1..Len(pdf.pages) : pdf.pages[n] # <<>>
    /\ UsesNow(SelectSeq(pdf.pages, LAMBDA text : text # <<>>)[1])

\* key in reports, for an ordered dict
HasKey(reports, key) == \E n \in 1..Len(reports) : reports[n][1] = key

\* the identity key of a report
ReportKey(report_data) ==
    <<report_data.report_type, report_data.period_from, report_data.period_through>>

\* StoreLatest with the comparison turned round: the earliest report of a key is kept
StoreEarliest(reports, report_data) ==
    LET key == ReportKey(report_data)
    IN  IF \/ ~ HasKey(reports, key)
           \/ Later(Field(reports, key).file_date, report_data.file_date)
        THEN SetField(reports, key, report_data)
        ELSE reports

\* StoreLatest without the comparison of file_date: the first report of a key is kept
StoreFirst(reports, report_data) ==
    IF ~ HasKey(reports, ReportKey(report_data))
    THEN SetField(reports, ReportKey(report_data), report_data)
    ELSE reports

\* the amendment handling of one parsed report
StoreLatest(reports, report_data) ==
    LET key == ReportKey(report_data)
    IN  IF \/ ~ HasKey(reports, key)
           \/ Later(report_data.file_date, Field(reports, key).file_date)
        THEN SetField(reports, key, report_data)
        ELSE reports

\* LoopBody with the try around the bookkeeping too: an exception loses the reports
\* parsed so far
LoopBodyAbort(reports, pdf, pdf_file, now) ==
    LET store(report_data) ==
            IF report_data.kind = "raise" THEN <<>>
            ELSE IF report_data.kind = "none" THEN reports
            ELSE StoreLatest(reports, report_data.data)
    IN  store(extract_pdf_data(pdf, pdf_file, now))

\* all_reports after the loop body ran for pdf_file: an exception is caught and
\* the loop goes on
LoopBody(reports, pdf, pdf_file, now) ==
    LET store(report_data) ==
            IF report_data.kind = "raise" THEN reports
            ELSE IF report_data.kind = "none" THEN reports
            ELSE StoreLatest(reports, report_data.data)
    IN  store(extract_pdf_data(pdf, pdf_file, now))

\* the row of a report in self.report_summaries
\* SummaryRow with '' for a metric the summary lacks
SummaryRowBlank(report_data) ==
    << <<"filename", report_data.filename>>,
       <<"committee_name", Get(report_data, "committee_name", <<>>)>>,
       <<"report_type", Get(report_data, "report_type", <<>>)>>,
       <<"period_from", Get(report_data, "period_from", <<>>)>>,
       <<"period_through", Get(report_data, "period_through", <<>>)>>,
       <<"file_date", Get(report_data, "file_date", <<>>)>>,
       <<"is_amendment", Get(report_data, "is_amendment", FALSE)>>,
       <<"money_on_hand_beginning",
         Get(report_data.summary, "money_on_hand_beginning", <<>>)>>,
       <<"money_on_hand_ending", Get(report_data.summary, "money_on_hand_ending", <<>>)>>,
       <<"total_receipts_period", Get(report_data.summary, "total_receipts_period", <<>>)>>,
       <<"total_expenditures_period",
         Get(report_data.summary, "total_expenditures_period", <<>>)>>,
       <<"monetary_receipts_period",
         Get(report_data.summary, "monetary_receipts_period", <<>>)>> >>

SummaryRow(report_data) ==
    << <<"filename", report_data.filename>>,
       <<"committee_name", Get(report_data, "committee_name", <<>>)>>,
       <<"report_type", Get(report_data, "report_type", <<>>)>>,
       <<"period_from", Get(report_data, "period_from", <<>>)>>,
       <<"period_through", Get(report_data, "period_through", <<>>)>>,
       <<"file_date", Get(report_data, "file_date", <<>>)>>,
       <<"is_amendment", Get(report_data, "is_amendment", FALSE)>>,
       <<"money_on_hand_beginning",
         Get(report_data.summary, "money_on_hand_beginning", Zero)>>,
       <<"money_on_hand_ending", Get(report_data.summary, "money_on_hand_ending", Zero)>>,
       <<"total_receipts_period", Get(report_data.summary, "total_receipts_period", Zero)>>,
       <<"total_expenditures_period",
         Get(report_data.summary, "total_expenditures_period", Zero)>>,
       <<"monetary_receipts_period",
         Get(report_data.summary, "monetary_receipts_period", Zero)>> >>

\* the row of one contribution of a report
ContribRow(report_data, contrib) ==
    SetField(SetField(SetField(contrib,
        "filename", report_data.filename),
        "report_period_from", Get(report_data, "period_from", <<>>)),
        "report_period_through", Get(report_data, "period_through", <<>>))

\* ExpenseRow that leaves an empty date_paid as it is
ExpenseRowAsFound(report_data, expense) ==
    SetField(SetField(SetField(expense,
        "filename", report_data.filename),
        "report_period_from", Get(report_data, "period_from", <<>>)),
        "report_period_through", Get(report_data, "period_through", <<>>))

\* the row of one expenditure of a report
ExpenseRow(report_data, expense) ==
    LET period_start == Get(report_data, "period_from", <<>>)
        expense_row ==
            SetField(SetField(SetField(expense,
                "filename", report_data.filename),
                "report_period_from", Get(report_data, "period_from", <<>>)),
                "report_period_through", Get(report_data, "period_through", <<>>))
    IN  IF Field(expense_row, "date_paid") = <<>>
        THEN SetField(expense_row, "date_paid", period_start)
        ELSE expense_row

\* the three lists after process_report_data(report_data)
process_report_data(lists, report_data) ==
    [report_summaries |-> Append(lists.report_summaries, SummaryRow(report_data)),
     contributions |->
        lists.contributions \o
            [n \in 1..Len(report_data.contributions) |->
                ContribRow(report_data, report_data.contributions[n])],
     expenditures |->
        lists.expenditures \o
            [n \in 1..Len(report_data.expenditures) |->
                ExpenseRow(report_data, report_data.expenditures[n])]]

\* the three lists after process_report_data ran for the values of reports from the n-th on
RECURSIVE ProcessAll(_, _, _)
ProcessAll(lists, reports, n) ==
    IF n > Len(reports) THEN lists
    ELSE ProcessAll(process_report_data(lists, reports[n][2]), reports, n + 1)

\* the columns of pd.DataFrame(rows): the keys in the order they first appear
RECURSIVE FrameColumns(_, _)
FrameColumns(rows, columns) ==
    IF rows = <<>> THEN columns
    ELSE LET new == SelectSeq(Keys(rows[1]),
                              LAMBDA k : \A c \in 1..Len(columns) : columns[c] # k)
         IN  FrameColumns(Tail(rows), columns \o new)

\* what pd.DataFrame(rows).to_csv(index=False) writes: the header and a line for each row
FrameOfRows(rows) ==
    LET columns == FrameColumns(rows, <<>>)
        cell(row, k) == IF \E n \in 1..Len(row) : row[n][1] = k THEN Field(row, k) ELSE <<>>
    IN  [columns |-> columns,
         rows |-> [r \in 1..Len(rows) |->
                      [c \in 1..Len(columns) |-> cell(rows[r], columns[c])]]]

\* what pd.DataFrame(columns=columns).to_csv(index=False) writes
EmptyFrame(columns) == [columns |-> columns, rows |-> <<>>]

ContributionsHeader ==
    <<"filename", "contributor_name", "contributor_address", "date_received",
      "individual_amount", "aggregate_amount", "contribution_type", "employer",
      "occupation", "report_period_from", "report_period_through">>

ExpendituresHeader ==
    <<"filename", "expense_category", "amount", "recipient_name", "recipient_address",
      "purpose", "date_paid", "report_period_from", "report_period_through">>

\* the files on disk after create_csv_files
create_csv_files(files, lists) ==
    LET f1 == IF lists.report_summaries # <<>>
              THEN Put(files, "FHF_report_summaries.csv", FrameOfRows(lists.report_summaries))
              ELSE files
        f2 == IF lists.contributions # <<>>
              THEN Put(f1, "FHF_contributions_received.csv", FrameOfRows(lists.contributions))
              ELSE Put(f1, "FHF_contributions_received.csv", EmptyFrame(ContributionsHeader))
    IN  IF lists.expenditures # <<>>
        THEN Put(f2, "FHF_expenditures_made.csv", FrameOfRows(lists.expenditures))
        ELSE Put(f2, "FHF_expenditures_made.csv", EmptyFrame(ExpendituresHeader))

\* f.endswith('.pdf')
IsPdfName(f) ==
    Len(f) >= 4 /\ SubSeq(f, Len(f) - 3, Len(f)) = <<".","p","d","f">>

-----------------------------------------------------------------------------
(* The table parsers as a state machine: one call on one page text.        *)

MaxLines == 3

\* the lines a page text is made of
PageLines ==
    << <<"A","C","M","E"," ","L","L","C">>,                   \* 'ACME LLC'
       <<"5","0","0",".","0","0"," ","0","1","/","1","5","/","2","0","2","5">>,
                                                              \* '500.00 01/15/2025'
       <<"0","1","/","1","5","/","2","0","2","5"," ","5","0","0",".","0","0">>,
                                                              \* '01/15/2025 500.00'
       <<"P","r","i","n","t","i","n","g"," ","2","5","0",".","0","0">>,
                                                              \* 'Printing 250.00'
       <<"R","e","f","u","n","d"," ","0",".","0","0">>,       \* 'Refund 0.00'
       <<","," ","1","/","2","/","2","0","2","5">>,           \* ', 1/2/2025'
       <<"1","2","3"," ","M","a","i","n"," ","S","t">>,       \* '123 Main St'
       <<>>,                                                  \* ''
       <<"M","i","s","c"," ","1",".","2",".","3">>,           \* 'Misc 1.2.3'
       <<"2","5","0"," ","O","a","k"," ","S","t"," ","1","/","2","/","2","0","2","5">>,
                                                              \* '250 Oak St 1/2/2025'
       <<"1","/","2","/","2","0","2","5">>,                   \* '1/2/2025'
       <<"T","r","o","y"," ","M","O"," ","6","3","3","7","9">> >>  \* 'Troy MO 63379'

\* the page texts of at most MaxLines lines
PageTexts ==
    UNION { { Join([k \in 1..n |-> PageLines[c[k]]], <<"\n">>) :
              c \in [1..n -> 1..Len(PageLines)] } : n \in 1..MaxLines }

\* no call of a table parser under way
NoTable == [kind |-> "none", lines |-> <<>>, i |-> 0, j |-> 0,
            data |-> <<>>, out |-> <<>>, pc |-> "return"]

\* the extractor before __init__
NoExtractor ==
    /\ folder = <<>> /\ listing = <<>> /\ pc = "off" /\ pdf_files = <<>> /\ idx = 0
    /\ all_reports = <<>> /\ report_summaries = <<>> /\ contributions = <<>>
    /\ expenditures = <<>> /\ csv = <<>> /\ clock = 0 /\ runs = 0

extractorVars == <<folder, listing, pc, pdf_files, idx, all_reports, report_summaries,
                   contributions, expenditures, csv, clock, runs>>

\* no call of parse_amount or parse_cover_page under way
NoCall == [fn |-> "none", arg |-> <<>>, pc |-> "return", result |-> <<>>]

\* no MECReportScraper constructed
NoScraper == [pc |-> "off", max_downloads |-> 0, sections |-> {}, y |-> 0, unique |-> <<>>,
              queue |-> <<>>, attempts |-> <<>>, all_reports |-> <<>>]

\* no multi-year run is under way
NoStep8 == [pc |-> "off", start |-> {}, files |-> {}, existing_ids |-> {}, y |-> 0,
            potential |-> <<>>, new_report_links |-> <<>>, k |-> 0, attempts |-> <<>>]

MaxFill == 14

\* the page texts of a name line, at most MaxFill lines 'x' that match no pattern, and
\* a line with an amount and a date; and the same with at most MaxFill further lines
\* 'x', the name line 'JANE DOE' and its line with an amount and a date
LongTexts ==
    LET fill(n) == [k \in 1..n |-> <<"x">>]
        first(n) == <<PageLines[1]>> \o fill(n) \o <<PageLines[2]>>
        second == << <<"J","A","N","E"," ","D","O","E">>, PageLines[2] >>
    IN  { Join(first(n), <<"\n">>) : n \in 0..MaxFill }
        \cup { Join(first(n) \o fill(m) \o second, <<"\n">>) :
                 n \in 0..MaxFill, m \in 0..MaxFill }

\* the page texts of a line with a form label or a label word, and a line with an
\* amount and a date
LabelLines ==
    { <<"A","L","L"," ","P","U","R","P","O","S","E"," ","P","R","I","N","T","I","N","G"," ","L","L","C">>, <<"P","U","R","P","O","S","E",":"," ","A","D","S">>,
      <<"P","A","I","D">>, <<"S","U","B","T","O","T","A","L"," ","5">>, <<"N","A","M","E",":"," ","X">>,
      <<"A","B">> }

LabelTexts == { Join(<<l, PageLines[2]>>, <<"\n">>) : l \in LabelLines }

InitTables ==
    /\ \E kind \in {"contributions", "expenditures"} :
       \E text \in PageTexts \cup LongTexts \cup LabelTexts :
          tbl = TableStart(kind, text)
    /\ NoExtractor /\ call = NoCall /\ scraper = NoScraper /\ step8 = NoStep8

ContribHeader ==
    /\ tbl.kind = "contributions" /\ tbl.pc = "outer" /\ tbl.i < Len(tbl.lines)
    /\ tbl' = C_Header(tbl)
    /\ UNCHANGED <<extractorVars, call, scraper, step8>>

ContribWindowLine ==
    /\ tbl.kind = "contributions" /\ tbl.pc = "window" /\ C_InWindow(tbl)
    /\ tbl' = C_WindowLine(tbl)
    /\ UNCHANGED <<extractorVars, call, scraper, step8>>

ContribEmit ==
    /\ tbl.kind = "contributions" /\ tbl.pc = "window" /\ ~ C_InWindow(tbl)
    /\ tbl' = C_Emit(tbl)
    /\ UNCHANGED <<extractorVars, call, scraper, step8>>

ContribReturn ==
    /\ tbl.kind = "contributions" /\ tbl.pc = "outer" /\ tbl.i >= Len(tbl.lines)
    /\ tbl' = [tbl EXCEPT !.pc = "return"]
    /\ UNCHANGED <<extractorVars, call, scraper, step8>>

ExpendHeader ==
    /\ tbl.kind = "expenditures" /\ tbl.pc = "outer" /\ tbl.i < Len(tbl.lines)
    /\ tbl' = E_Header(tbl)
    /\ UNCHANGED <<extractorVars, call, scraper, step8>>

ExpendWindowLine ==
    /\ tbl.kind = "expenditures" /\ tbl.pc = "window" /\ E_InWindow(tbl)
    /\ tbl' = E_WindowLine(tbl)
    /\ UNCHANGED <<extractorVars, call, scraper, step8>>

ExpendEmit ==
    /\ tbl.kind = "expenditures" /\ tbl.pc = "window" /\ ~ E_InWindow(tbl)
    /\ tbl' = E_Emit(tbl)
    /\ UNCHANGED <<extractorVars, call, scraper, step8>>

ExpendReturn ==
    /\ tbl.kind = "expenditures" /\ tbl.pc = "outer" /\ tbl.i >= Len(tbl.lines)
    /\ tbl' = [tbl EXCEPT !.pc = "return"]
    /\ UNCHANGED <<extractorVars, call, scraper, step8>>

NextTables ==
    \/ ContribHeader \/ ContribWindowLine \/ ContribEmit \/ ContribReturn
    \/ ExpendHeader \/ ExpendWindowLine \/ ExpendEmit \/ ExpendReturn

SpecTables == InitTables /\ [][NextTables]_vars

\* a step of the two loops is possible: the call is in a window, or at a line
Running == tbl.pc = "window" \/ (tbl.pc = "outer" /\ tbl.i < Len(tbl.lines))

\* a step of the two loops
LoopStep ==
    \/ ContribHeader \/ ContribWindowLine \/ ContribEmit
    \/ ExpendHeader \/ ExpendWindowLine \/ ExpendEmit

\* a call that has started runs on: the interpreter takes the next step as long as
\* there is one.  That is weak fairness of the return and of the loop steps; for
\* the loop steps it is written with Running, which holds exactly where a loop step
\* is enabled, every loop step changing i, j or pc.
SpecTablesFair ==
    /\ SpecTables
    /\ WF_vars(ContribReturn \/ ExpendReturn)
    /\ ([]<>(~ Running) \/ []<><<LoopStep>>_vars)

-----------------------------------------------------------------------------
(* parse_amount and parse_cover_page as a state machine: one call on one   *)
(* argument.                                                               *)

MaxAmountLen == 4

\* the characters an amount text is made of
AmountChars == {"0", "1", "5", ".", ",", "$", "a", "n"}

\* the amount texts of at most MaxAmountLen characters, '' among them
AmountTexts == UNION {[1..n -> AmountChars] : n \in 0..MaxAmountLen}

MaxParts == 3

\* the pieces a cover page text is made of
CoverParts ==
    << <<"C","O","M","M","I","T","T","E","E"," ","Q","U","A","R","T","E","R","L","Y"," ","R","E",
         "P","O","R","T">>,                                   \* 'COMMITTEE QUARTERLY REPORT'
       <<"A","M","E","N","D","E","D">>,                       \* 'AMENDED'
       <<"A","M","E","N","D","I","N","G">>,                   \* 'AMENDING'
       <<"F","R","O","M"," ","0","1","/","0","1","/","2","0","2","5"," ","T","H","R","O","U",
         "G","H"," ","0","3","/","3","1","/","2","0","2","5">>,
                                                \* 'FROM 01/01/2025 THROUGH 03/31/2025'
       <<"4","/","1","0","/","2","0","2","5">>,               \* '4/10/2025'
       <<"a","m","e","n","d","e","d">>,                       \* 'amended'
       <<"Q","U","A","R","T","E","R","L","Y"," ","R","E","P","O","R","T">>,
                                                              \* 'QUARTERLY REPORT'
       <<"1","3","/","0","1","/","2","0","2","5">> >>         \* '13/01/2025'

\* the cover page texts of at most MaxParts pieces, '' among them
CoverTexts ==
    UNION { { Join([k \in 1..n |-> CoverParts[c[k]]], <<" ">>) :
              c \in [1..n -> 1..Len(CoverParts)] } : n \in 0..MaxParts }

MaxPages == 2

\* the lines a summary page is made of: the marker, a line for the first pattern and
\* a line for the second pattern of money_on_hand_beginning, and a line for the first
\* pattern of money_on_hand_ending
SummaryLines ==
    << <<"R","E","P","O","R","T"," ","S","U","M","M","A","R","Y">>,
       <<"M","o","n","e","y"," ","O","n"," ","H","a","n","d"," ","a","t"," ","t","h",
           "e"," ","b","e","g","i","n","n","i","n","g"," ","1","0","0",".","0","0">>,
       <<"b","e","g","i","n","n","i","n","g"," ","o","f"," ","t","h","i","s"," ","r",
           "e","p","o","r","t","i","n","g"," ","p","e","r","i","o","d"," ","2","0","0",
           ".","0","0">>,
       <<"M","o","n","e","y"," ","O","n"," ","H","a","n","d"," ","a","t"," ","t","h",
           "e"," ","c","l","o","s","e"," ","3","0","0",".","0","0">> >>

\* the page texts: with and without the marker, with no figure, with the line of one
\* pattern, and with the line of the second pattern before the line of the first
SummaryPages ==
    LET page(ks) == Join([n \in 1..Len(ks) |-> SummaryLines[ks[n]]], <<"\n">>)
    IN  { page(<<1>>), page(<<1, 2>>), page(<<1, 3>>), page(<<1, 3, 2>>), page(<<1, 4>>),
          page(<<4>>) }

\* the lists of at most MaxPages page texts
SummaryInputs == UNION {[1..n -> SummaryPages] : n \in 0..MaxPages}

InitCalls ==
    /\ \/ \E amount_str \in AmountTexts :
             call = [fn |-> "parse_amount", arg |-> amount_str, pc |-> "call",
                     result |-> <<>>]
       \/ \E text \in CoverTexts :
             call = [fn |-> "parse_cover_page", arg |-> text, pc |-> "call",
                     result |-> <<>>]
       \/ \E pages \in SummaryInputs :
             call = [fn |-> "extract_summary_data", arg |-> pages, pc |-> "call",
                     result |-> <<>>]
    /\ tbl = NoTable /\ scraper = NoScraper /\ step8 = NoStep8
    /\ NoExtractor

ParseAmount ==
    /\ call.fn = "parse_amount" /\ call.pc = "call"
    /\ call' = [call EXCEPT !.pc = "return", !.result = parse_amount(call.arg)]
    /\ UNCHANGED <<extractorVars, tbl, scraper, step8>>

ParseCoverPage ==
    /\ call.fn = "parse_cover_page" /\ call.pc = "call"
    /\ call' = [call EXCEPT !.pc = "return",
                            !.result = parse_cover_page(call.arg, Now(clock))]
    /\ clock' = IF UsesNow(call.arg) THEN clock + 1 ELSE clock
    /\ UNCHANGED <<folder, listing, pc, pdf_files, idx, all_reports, report_summaries,
                   contributions, expenditures, csv, runs, tbl, scraper, step8>>

ExtractSummaryData ==
    /\ call.fn = "extract_summary_data" /\ call.pc = "call"
    /\ call' = [call EXCEPT !.pc = "return", !.result = extract_summary_data(call.arg)]
    /\ UNCHANGED <<extractorVars, tbl, scraper, step8>>

NextCalls == ParseAmount \/ ParseCoverPage \/ ExtractSummaryData

SpecCalls == InitCalls /\ [][NextCalls]_vars

-----------------------------------------------------------------------------
(* MECReportScraper.get_committee_reports as a state machine: the loop     *)
(* over the years, and for each year the downloads of its first reports.   *)
(* The committee page is the environment: what a year's section shows is   *)
(* drawn when the section is expanded, and so is what a download does.     *)

MaxLinks == 2

MaxSections == 2

MaxDownloads == 2

years_to_process == <<"2025", "2024", "2023", "2022", "2021">>

\* the <a> elements a year's section can show: the link text, whether the element has
\* class btn-link, and whether it has a data-cpid attribute
Anchors ==
    { [text |-> <<"1","0","1">>, btn |-> TRUE,  cpid |-> TRUE],
      [text |-> <<"1","0","2">>, btn |-> TRUE,  cpid |-> FALSE],
      [text |-> <<" ","1","0","2">>, btn |-> FALSE, cpid |-> TRUE],
      [text |-> <<"V","i","e","w">>, btn |-> TRUE,  cpid |-> FALSE],
      [text |-> <<>>,            btn |-> TRUE,  cpid |-> TRUE] }

\* the sections of at most MaxLinks elements
Sections == UNION {[1..n -> Anchors] : n \in 0..MaxLinks}

\* text.isdigit()
IsDigit(text) == text # <<>> /\ \A k \in 1..Len(text) : text[k] \in Digit

\* the texts of potential_report_links: the a.btn-link elements with a text and a
\* data-cpid or an all-digit text, then the a[data-cpid] elements with a text
potential_report_links(section) ==
    LET texts(links) == [k \in 1..Len(links) |-> Strip(links[k].text)]
        btn_links  == SelectSeq(section, LAMBDA a : a.btn)
        cpid_links == SelectSeq(section, LAMBDA a : a.cpid)
    IN  texts(SelectSeq(btn_links,
                        LAMBDA a : Strip(a.text) # <<>> /\ (a.cpid \/ IsDigit(Strip(a.text)))))
        \o texts(SelectSeq(cpid_links, LAMBDA a : Strip(a.text) # <<>> /\ a.cpid))

\* the keys of unique_links, in insertion order: each text once, where it comes first
RECURSIVE unique_links(_)
unique_links(potential) ==
    IF potential = <<>> THEN <<>>
    ELSE LET before == unique_links(SubSeq(potential, 1, Len(potential) - 1))
             text   == potential[Len(potential)]
         IN  IF \E k \in 1..Len(before) : before[k] = text THEN before
             ELSE Append(before, text)

\* test_reports with every report of the year in it, whatever max_downloads is
test_reports_all(enhanced_reports, max_downloads) ==
    IF enhanced_reports # <<>> /\ max_downloads > 0 THEN enhanced_reports ELSE <<>>

\* the reports of a year that are downloaded: the first download_count of them
test_reports(enhanced_reports, max_downloads) ==
    IF enhanced_reports # <<>> /\ max_downloads > 0
    THEN SubSeq(enhanced_reports, 1, MinOf({Len(enhanced_reports), max_downloads}))
    ELSE <<>>

\* MECReportScraper(max_downloads=...), and get_committee_reports is called on a page
\* that has sections for at most MaxSections of the years
InitScraper ==
    /\ \E max_downloads \in -1..MaxDownloads :
       \E sections \in {S \in SUBSET (1..Len(years_to_process)) : Cardinality(S) <= MaxSections} :
          scraper = [pc |-> "start", max_downloads |-> max_downloads, sections |-> sections,
                     y |-> 1, unique |-> <<>>, queue |-> <<>>, attempts |-> <<>>,
                     all_reports |-> <<>>]
    /\ tbl = NoTable /\ call = NoCall /\ step8 = NoStep8
    /\ NoExtractor

\* the page is opened and the reports table looked up; without it the call returns []
OpenReports ==
    /\ scraper.pc = "start"
    /\ \E found \in BOOLEAN :
          scraper' = [scraper EXCEPT !.pc = IF found THEN "years" ELSE "done"]
    /\ UNCHANGED <<extractorVars, tbl, call, step8>>

\* one year of the loop, up to the downloads: a year without an expand button or with
\* an exception is left with continue; otherwise its links are collected
ExpandYear ==
    /\ scraper.pc = "years" /\ scraper.y <= Len(years_to_process)
    /\ \/ /\ scraper.y \notin scraper.sections
          /\ scraper' = [scraper EXCEPT !.y = @ + 1, !.unique = <<>>, !.attempts = <<>>]
       \/ /\ scraper.y \in scraper.sections
          /\ \/ scraper' = [scraper EXCEPT !.y = @ + 1, !.unique = <<>>, !.attempts = <<>>]
             \/ \E section \in Sections :
                   LET unique == unique_links(potential_report_links(section))
                       enhanced_reports ==
                           [k \in 1..Len(unique) |->
                               [year |-> years_to_process[scraper.y], report_id |-> unique[k]]]
                       queue == test_reports(unique, scraper.max_downloads)
                   IN  scraper' = [scraper EXCEPT
                                     !.unique = unique, !.attempts = <<>>, !.queue = queue,
                                     !.all_reports = @ \o enhanced_reports,
                                     !.pc = "downloads"]
    /\ UNCHANGED <<extractorVars, tbl, call, step8>>

\* one call of _download_single_report_with_monitoring: it returns a file name or
\* None, or raises, and the loop goes on to the next report in each case
Download ==
    /\ scraper.pc = "downloads" /\ scraper.queue # <<>>
    /\ \E outcome \in {"file", "none", "raise"} :
          scraper' = [scraper EXCEPT
                        !.attempts = Append(@, [report_id |-> Head(scraper.queue),
                                                outcome |-> outcome]),
                        !.queue = Tail(@)]
    /\ UNCHANGED <<extractorVars, tbl, call, step8>>

\* the downloads of the year are over: the next year
YearDone ==
    /\ scraper.pc = "downloads" /\ scraper.queue = <<>>
    /\ scraper' = [scraper EXCEPT !.pc = "years", !.y = @ + 1]
    /\ UNCHANGED <<extractorVars, tbl, call, step8>>

\* return all_reports
ReturnReports ==
    /\ scraper.pc = "years" /\ scraper.y > Len(years_to_process)
    /\ scraper' = [scraper EXCEPT !.pc = "done"]
    /\ UNCHANGED <<extractorVars, tbl, call, step8>>

NextScraper == OpenReports \/ ExpandYear \/ Download \/ YearDone \/ ReturnReports

SpecScraper == InitScraper /\ [][NextScraper]_vars

-----------------------------------------------------------------------------
(* run_step_8_multi_year of step8_allyears.py: the report ids found in the  *)
(* downloads directory, and for each year the links of the page, the links  *)
(* left after the ids already there are taken out, and their downloads.     *)

\* available_years, most recent first, as the texts the file names show
available_years == << <<"2","0","2","4">>, <<"2","0","2","3">> >>

\* the names the downloads directory can hold at the start:
\* 'FHF_2024_Step8_12345.pdf', '67890.pdf', 'FHF_2024_Step8_1234.pdf', '12345.txt'
StartNames ==
    { <<"F","H","F","_","2","0","2","4","_","S","t","e","p","8","_","1","2","3","4","5",".","p","d","f">>,
      <<"6","7","8","9","0",".","p","d","f">>,
      <<"F","H","F","_","2","0","2","4","_","S","t","e","p","8","_","1","2","3","4",".","p","d","f">>,
      <<"1","2","3","4","5",".","t","x","t">> }

\* the texts of the <a> elements the page can show: '12345', ' 67890 ', '1234', 'View'
LinkTexts == { <<"1","2","3","4","5">>, <<" ","6","7","8","9","0"," ">>, <<"1","2","3","4">>, <<"V","i","e","w">> }

\* the displayed <a> elements after a year is expanded: at most MaxLinks of them
LinkLists == UNION {[1..n -> LinkTexts] : n \in 0..MaxLinks}

\* re.search(r'(\d{5,})\.pdf$', filename): group(1), or <<>> for no match
ReportIdSearch(filename) ==
    LET stem == Len(filename) - 4
        run(nondigit) ==
            SubSeq(filename, (IF nondigit = {} THEN 0 ELSE MaxOf(nondigit)) + 1, stem)
        id(digits) == IF Len(digits) >= 5 THEN digits ELSE <<>>
    IN  IF stem < 0 \/ SubSeq(filename, stem + 1, stem + 4) # <<".","p","d","f">> THEN <<>>
        ELSE id(run({k \in 1..stem : filename[k] \notin Digit}))

\* existing_ids of the files of downloads_dir.glob("*.pdf")
get_existing_report_ids(files) ==
    {ReportIdSearch(f) : f \in {g \in files : ReportIdSearch(g) # <<>>}}

\* the texts of potential_report_links: the displayed links with an all-digit text of
\* five or more characters
step8_potential_links(all_links) ==
    LET texts == [k \in 1..Len(all_links) |-> Strip(all_links[k])]
    IN  SelectSeq(texts, LAMBDA link_text : IsDigit(link_text) /\ Len(link_text) >= 5)

\* new_report_links: the links whose id is not in existing_ids
new_report_links(potential, existing_ids) ==
    SelectSeq(potential, LAMBDA report_id : report_id \notin existing_ids)

\* f"FHF_{year}_Step8_{report_id}.pdf"
target_filename(year, report_id) ==
    <<"F","H","F","_">> \o year \o <<"_","S","t","e","p","8","_">> \o report_id
       \o <<".","p","d","f">>

\* existing_ids that no download adds an id to
existing_ids_unchanged(existing_ids, report_id, success) == existing_ids

\* existing_ids after a download: a successful one adds its id
existing_ids_after(existing_ids, report_id, success) ==
    IF success THEN existing_ids \cup {report_id} ELSE existing_ids

\* run_step_8_multi_year is called over a downloads directory
InitStep8 ==
    /\ \E start \in SUBSET StartNames :
          step8 = [pc |-> "start", start |-> start, files |-> start, existing_ids |-> {},
                   y |-> 0, potential |-> <<>>, new_report_links |-> <<>>, k |-> 0,
                   attempts |-> <<>>]
    /\ tbl = NoTable /\ call = NoCall /\ scraper = NoScraper
    /\ NoExtractor

\* existing_ids = get_existing_report_ids(downloads_dir), and the years are found
GetExistingReportIds ==
    /\ step8.pc = "start"
    /\ step8' = [step8 EXCEPT !.existing_ids = get_existing_report_ids(step8.files),
                              !.pc = "years"]
    /\ UNCHANGED <<extractorVars, tbl, call, scraper>>

\* process_single_year returns 0, 0, 0: the year is not found or an exception is raised
YearNotFound ==
    /\ step8.pc = "years" /\ step8.y < Len(available_years)
    /\ step8' = [step8 EXCEPT !.y = @ + 1]
    /\ UNCHANGED <<extractorVars, tbl, call, scraper>>

\* process_single_year up to its download loop: the year is expanded, the links are
\* collected and the ids of existing_ids taken out; with no link left it returns
FilterLinks ==
    /\ step8.pc = "years" /\ step8.y < Len(available_years)
    /\ \E all_links \in LinkLists :
          LET potential == step8_potential_links(all_links)
              new == new_report_links(potential, step8.existing_ids)
          IN  step8' = [step8 EXCEPT !.potential = potential, !.new_report_links = new,
                                     !.k = 0,
                                     !.y = IF new = <<>> THEN @ + 1 ELSE @,
                                     !.pc = IF new = <<>> THEN "years" ELSE "download"]
    /\ UNCHANGED <<extractorVars, tbl, call, scraper>>

\* one pass of the download loop: download_single_report gives success or not (also
\* by an exception), a success leaves the file and adds the id to existing_ids
DownloadSingleReport ==
    /\ step8.pc = "download" /\ step8.k < Len(step8.new_report_links)
    /\ \E success \in BOOLEAN :
          LET year == available_years[step8.y + 1]
              report_id == step8.new_report_links[step8.k + 1]
          IN  step8' = [step8 EXCEPT
                          !.files = IF success
                                    THEN @ \cup {target_filename(year, report_id)} ELSE @,
                          !.existing_ids = existing_ids_after(@, report_id, success),
                          !.attempts = Append(@, [y |-> step8.y + 1, report_id |-> report_id,
                                                  success |-> success]),
                          !.k = @ + 1]
    /\ UNCHANGED <<extractorVars, tbl, call, scraper>>

\* process_single_year returns after its download loop
YearComplete ==
    /\ step8.pc = "download" /\ step8.k = Len(step8.new_report_links)
    /\ step8' = [step8 EXCEPT !.pc = "years", !.y = @ + 1]
    /\ UNCHANGED <<extractorVars, tbl, call, scraper>>

\* the loop over available_years is over
Step8Return ==
    /\ step8.pc = "years" /\ step8.y = Len(available_years)
    /\ step8' = [step8 EXCEPT !.pc = "done"]
    /\ UNCHANGED <<extractorVars, tbl, call, scraper>>

NextStep8 ==
    \/ GetExistingReportIds \/ YearNotFound \/ FilterLinks \/ DownloadSingleReport
    \/ YearComplete \/ Step8Return

SpecStep8 == InitStep8 /\ [][NextStep8]_vars

-----------------------------------------------------------------------------
(* extract_all_data as a state machine over a downloads folder.            *)

MaxFiles == 2

MaxRuns == 2

\* the PDFs a downloads folder can hold
Pdfs ==
    LET
        \* 'COMMITTEE QUARTERLY REPORT 4/10/2025 FROM 1/1/2025 THROUGH 3/31/2025'
        CoverQ1Apr10 ==
            <<"C","O","M","M","I","T","T","E","E"," ","Q","U","A","R","T","E","R","L","Y"," ","R","E",
              "P","O","R","T"," ","4","/","1","0","/","2","0","2","5"," ","F","R","O","M"," ","1","/",
              "1","/","2","0","2","5"," ","T","H","R","O","U","G","H"," ","3","/","3","1","/","2","0",
              "2","5">>
        \* 'COMMITTEE QUARTERLY REPORT 4/20/2025 FROM 1/1/2025 THROUGH 3/31/2025'
        CoverQ1Apr20 ==
            <<"C","O","M","M","I","T","T","E","E"," ","Q","U","A","R","T","E","R","L","Y"," ","R","E",
              "P","O","R","T"," ","4","/","2","0","/","2","0","2","5"," ","F","R","O","M"," ","1","/",
              "1","/","2","0","2","5"," ","T","H","R","O","U","G","H"," ","3","/","3","1","/","2","0",
              "2","5">>
        \* 'AMENDED 4/20/2025 FROM 1/1/2025 THROUGH 3/31/2025'
        CoverQ1Amended ==
            <<"A","M","E","N","D","E","D"," ","4","/","2","0","/","2","0","2","5"," ","F","R","O","M",
              " ","1","/","1","/","2","0","2","5"," ","T","H","R","O","U","G","H"," ","3","/","3","1",
              "/","2","0","2","5">>
        \* 'COMMITTEE QUARTERLY REPORT 4/10/2025'
        CoverNoPeriod ==
            <<"C","O","M","M","I","T","T","E","E"," ","Q","U","A","R","T","E","R","L","Y"," ","R","E",
              "P","O","R","T"," ","4","/","1","0","/","2","0","2","5">>
        \* 'COMMITTEE QUARTERLY REPORT'
        CoverNoDate ==
            <<"C","O","M","M","I","T","T","E","E"," ","Q","U","A","R","T","E","R","L","Y"," ","R","E",
              "P","O","R","T">>
        \* 'Jane Doe\n100.00 2/3/2025\nCONTRIBUTIONS AND LOANS RECEIVED'
        PageContributions ==
            <<"J","a","n","e"," ","D","o","e","\n","1","0","0",".","0","0"," ","2","/","3","/","2","0",
              "2","5","\n","C","O","N","T","R","I","B","U","T","I","O","N","S"," ","A","N","D"," ","L",
              "O","A","N","S"," ","R","E","C","E","I","V","E","D">>
        \* 'REPORT SUMMARY\nMoney On Hand at the close 1,250.50'
        PageSummary ==
            <<"R","E","P","O","R","T"," ","S","U","M","M","A","R","Y","\n","M","o","n","e","y"," ","O",
              "n"," ","H","a","n","d"," ","a","t"," ","t","h","e"," ","c","l","o","s","e"," ","1",",",
              "2","5","0",".","5","0">>
        \* 'Acme Print\nPrinting 250.00\nITEMIZED EXPENDITURES'
        PageExpendNoDate ==
            <<"A","c","m","e"," ","P","r","i","n","t","\n","P","r","i","n","t","i","n","g"," ","2","5",
              "0",".","0","0","\n","I","T","E","M","I","Z","E","D"," ","E","X","P","E","N","D","I","T",
              "U","R","E","S">>
        \* 'Acme Print\n500.00 3/1/2025\nSUPPLEMENTAL EXPENDITURES'
        PageExpendDated ==
            <<"A","c","m","e"," ","P","r","i","n","t","\n","5","0","0",".","0","0"," ","3","/","1","/",
              "2","0","2","5","\n","S","U","P","P","L","E","M","E","N","T","A","L"," ","E","X","P","E",
              "N","D","I","T","U","R","E","S">>
        pdf(pages) == [broken |-> FALSE, pages |-> pages]
    IN  << pdf(<< <<>>, CoverQ1Apr10, PageContributions>>),
           pdf(<<CoverQ1Apr20, PageSummary, PageExpendNoDate>>),
           pdf(<<CoverQ1Amended, PageExpendDated>>),
           pdf(<<CoverNoPeriod, PageContributions>>),
           pdf(<<CoverNoDate>>),
           pdf(<< <<>>, <<>> >>),
           [broken |-> TRUE, pages |-> <<>>] >>

\* the name of the n-th PDF of a folder: 'a.pdf', 'b.pdf', ...
PdfName(n) ==
    <<(<<"a","b","c","d","e","f","g","h">>)[n], ".", "p", "d", "f">>

\* a file of the folder that is no PDF: 'notes.txt'
OtherName == <<"n","o","t","e","s",".","t","x","t">>

\* the orders in which the names of a set can be listed
Orders(names) ==
    {o \in [1..Cardinality(names) -> names] : \A a, b \in DOMAIN o : a # b => o[a] # o[b]}

\* FHFDataExtractor("downloads") over a folder of at most MaxFiles PDFs; the names
\* a.pdf, b.pdf, ... go to the PDFs in order of content, and the listing takes
\* every order of the names, so every processing order of every folder occurs
Init ==
    /\ \E n \in 0..MaxFiles : \E content \in [1..n -> 1..Len(Pdfs)] : \E other \in BOOLEAN :
          /\ \A a, b \in 1..n : a < b => content[a] <= content[b]
          /\ folder = [f \in {PdfName(k) : k \in 1..n} \cup (IF other THEN {OtherName} ELSE {})
                         |-> IF f = OtherName THEN [broken |-> TRUE, pages |-> <<>>]
                             ELSE Pdfs[content[CHOOSE k \in 1..n : PdfName(k) = f]]]
          /\ listing \in Orders(DOMAIN folder)
    /\ tbl = NoTable /\ call = NoCall /\ scraper = NoScraper /\ step8 = NoStep8
    /\ pc = "idle" /\ pdf_files = <<>> /\ idx = 0 /\ all_reports = <<>>
    /\ report_summaries = <<>> /\ contributions = <<>> /\ expenditures = <<>>
    /\ csv = <<>> /\ clock = 0 /\ runs = 0

\* extract_all_data is called: the folder is listed and all_reports is empty
StartExtract ==
    /\ pc \in {"idle", "done"} /\ runs < MaxRuns
    /\ pdf_files' = SelectSeq(listing, IsPdfName)
    /\ all_reports' = <<>>
    /\ idx' = 0
    /\ pc' = "loop"
    /\ UNCHANGED <<tbl, call, scraper, step8, folder, listing, report_summaries, contributions, expenditures,
                   csv, clock, runs>>

\* one pass of the loop over pdf_files
ProcessPdf ==
    /\ pc = "loop" /\ idx < Len(pdf_files)
    /\ LET pdf_file == pdf_files[idx + 1]
       IN  /\ all_reports' = LoopBody(all_reports, folder[pdf_file], pdf_file, Now(clock))
           /\ clock' = IF CallsNow(folder[pdf_file]) THEN clock + 1 ELSE clock
    /\ idx' = idx + 1
    /\ UNCHANGED <<tbl, call, scraper, step8, folder, listing, pc, pdf_files, report_summaries, contributions,
                   expenditures, csv, runs>>

\* the loop over all_reports.values()
ProcessLatest ==
    /\ pc = "loop" /\ idx = Len(pdf_files)
    /\ LET lists == ProcessAll([report_summaries |-> report_summaries,
                                contributions |-> contributions,
                                expenditures |-> expenditures], all_reports, 1)
       IN  /\ report_summaries' = lists.report_summaries
           /\ contributions' = lists.contributions
           /\ expenditures' = lists.expenditures
    /\ pc' = "csv"
    /\ UNCHANGED <<tbl, call, scraper, step8, folder, listing, pdf_files, idx, all_reports, csv, clock, runs>>

\* create_csv_files, and extract_all_data returns
CreateCsvFiles ==
    /\ pc = "csv"
    /\ csv' = create_csv_files(csv, [report_summaries |-> report_summaries,
                                     contributions |-> contributions,
                                     expenditures |-> expenditures])
    /\ runs' = runs + 1
    /\ pc' = "done"
    /\ UNCHANGED <<tbl, call, scraper, step8, folder, listing, pdf_files, idx, all_reports, report_summaries,
                   contributions, expenditures, clock>>

Next == StartExtract \/ ProcessPdf \/ ProcessLatest \/ CreateCsvFiles

Spec == Init /\ [][Next]_vars

-----------------------------------------------------------------------------
(* Properties of extract_all_data, stated over Spec.  What a call did with *)
(* each file is recomputed from the folder and the clock.                  *)

\* the value of clock when the n-th file of pdf_files was processed in this call
ClockAt(n) == clock - Cardinality({m \in n..idx : CallsNow(folder[pdf_files[m]])})

\* what extract_pdf_data returned for each file this call has processed
Parsed ==
    [n \in 1..idx |->
        extract_pdf_data(folder[pdf_files[n]], pdf_files[n], Now(ClockAt(n)))]

\* the files of parsed that gave report_data
Ok(parsed) == {n \in DOMAIN parsed : parsed[n].kind = "ok"}

\* file has a row in report_summaries
Forwarded(file) ==
    \E r \in 1..Len(report_summaries) : Field(report_summaries[r], "filename") = file

\* file has a row in one of the three lists
HasRow(file) ==
    \E r \in 1..Len(report_summaries \o contributions \o expenditures) :
       Field((report_summaries \o contributions \o expenditures)[r], "filename") = file

\* every cover page of the folder's PDFs holds a date strptime accepts
Dated == \A f \in DOMAIN folder : ~ CallsNow(folder[f])

\* the reports an all_reports dict retains
Retained(reports) == {reports[k][2] : k \in 1..Len(reports)}

\* all_reports after the amendment handling took the results from the n-th on
RECURSIVE StoreAll(_, _, _)
StoreAll(reports, results, n) ==
    IF n > Len(results) THEN reports
    ELSE StoreAll(IF results[n].kind = "ok" THEN StoreLatest(reports, results[n].data)
                  ELSE reports,
                  results, n + 1)

\* all_reports after the loop of extract_all_data ran over files from the n-th on, when c
\* calls of datetime.now() were made before
RECURSIVE LoopFrom(_, _, _, _)
LoopFrom(reports, files, n, c) ==
    IF n > Len(files) THEN reports
    ELSE LoopFrom(LoopBody(reports, folder[files[n]], files[n], Now(c)), files, n + 1,
                  IF CallsNow(folder[files[n]]) THEN c + 1 ELSE c)

\* the three lists and the files on disk after a first call of extract_all_data that
\* finds files listed
FirstCall(files) ==
    LET out(lists) == [lists |-> lists, csv |-> create_csv_files(<<>>, lists)]
    IN  out(ProcessAll([report_summaries |-> <<>>, contributions |-> <<>>,
                        expenditures |-> <<>>],
                       LoopFrom(<<>>, files, 1, 0), 1))

\* C1: when extract_all_data has returned, every identity key of a parsed report has
\* exactly one entry in all_reports; the entry is one of the parsed reports, no parsed
\* report of the key has a later file_date, the entry's report has its summary row in
\* the output, and a file of the key that has any row in the output is the entry's file.
C1_LatestPerKey ==
    pc = "done" =>
        LET parsed == Parsed
        IN  \A n \in Ok(parsed) :
               LET key  == ReportKey(parsed[n].data)
                   kept == Field(all_reports, key)
               IN  /\ Cardinality({k \in 1..Len(all_reports) : all_reports[k][1] = key}) = 1
                   /\ \E m \in Ok(parsed) : kept = parsed[m].data
                   /\ ~ Later(parsed[n].data.file_date, kept.file_date)
                   /\ Forwarded(kept.filename)
                   /\ HasRow(pdf_files[n]) => kept.filename = pdf_files[n]

\* a call has returned that parsed two reports of one key, the later filed one first,
\* and only the later filed one has rows in the output
C1_Witness ==
    /\ pc = "done"
    /\ LET parsed == Parsed
       IN  \E n, m \in Ok(parsed) :
              /\ m < n
              /\ ReportKey(parsed[n].data) = ReportKey(parsed[m].data)
              /\ Later(parsed[m].data.file_date, parsed[n].data.file_date)
              /\ HasRow(pdf_files[m]) /\ ~ HasRow(pdf_files[n])

\* C2: when extract_all_data has returned, a parsed report with an empty period is in
\* the output also when another parsed report has an empty period: the two are not
\* merged.
C2_EmptyPeriodsNotMerged ==
    pc = "done" =>
        LET parsed == Parsed
            empty(n) == /\ parsed[n].data.period_from = <<>>
                        /\ parsed[n].data.period_through = <<>>
        IN  \A n, m \in Ok(parsed) :
               n # m /\ empty(n) /\ empty(m) => Forwarded(pdf_files[n])

\* C3: when extract_all_data has returned, of two parsed filings with the same
\* non-empty period and different file_dates the earlier filed one is not in the
\* output, whatever report types the two cover pages were given.
C3_LaterFilingSupersedes ==
    pc = "done" =>
        LET parsed == Parsed
        IN  \A n, m \in Ok(parsed) :
               (/\ parsed[n].data.period_from # <<>>
                /\ parsed[n].data.period_from = parsed[m].data.period_from
                /\ parsed[n].data.period_through = parsed[m].data.period_through
                /\ Later(parsed[m].data.file_date, parsed[n].data.file_date))
               => ~ Forwarded(pdf_files[n])

\* all_reports when the amendment handling takes the results of parsed in the order o
InOrder(parsed, o) == StoreAll(<<>>, [k \in 1..Len(parsed) |-> parsed[o[k]]], 1)

\* C4 as claimed: when extract_all_data has returned and every file_date came from a
\* cover page, the reports retained are the ones that any other order of the same
\* parsed reports retains.
C4_SameReportsInAnyOrder ==
    pc = "done" /\ Dated =>
        LET parsed == Parsed
        IN  \A o \in Orders(1..Len(parsed)) :
               Retained(InOrder(parsed, o)) = Retained(all_reports)

\* C4 as amended: when extract_all_data has returned and every file_date came from a
\* cover page, any other order of the same parsed reports retains the same keys, for
\* each key a report of the same file_date, and the same report when only one parsed
\* report of the key has that file_date.
C4_SameLatestInAnyOrder ==
    pc = "done" /\ Dated =>
        LET parsed == Parsed
            same(other) ==
                /\ {other[k][1] : k \in 1..Len(other)}
                      = {all_reports[k][1] : k \in 1..Len(all_reports)}
                /\ \A k \in 1..Len(all_reports) :
                      LET key  == all_reports[k][1]
                          kept == all_reports[k][2]
                          tied == {n \in Ok(parsed) :
                                      /\ ReportKey(parsed[n].data) = key
                                      /\ parsed[n].data.file_date = kept.file_date}
                      IN  /\ Field(other, key).file_date = kept.file_date
                          /\ Cardinality(tied) = 1 => Field(other, key) = kept
        IN  \A o \in Orders(1..Len(parsed)) : same(InOrder(parsed, o))

\* a call has returned that parsed two dated reports of one key and one file_date, and
\* the other order of the two retains the other report, with the same file_date
C4_Witness ==
    /\ pc = "done" /\ Dated
    /\ LET parsed == Parsed
       IN  \E o \in Orders(1..Len(parsed)) : \E k \in 1..Len(all_reports) :
              LET other == Field(InOrder(parsed, o), all_reports[k][1])
              IN  /\ other # all_reports[k][2]
                  /\ other.file_date = all_reports[k][2].file_date

\* C6: when extract_all_data has returned, a file whose processing raised has no entry
\* in all_reports and no row in the three lists, every file that gave report_data is
\* accounted for in all_reports, and after the first call the lists and the CSV files
\* are those of a call that does not find the raising files listed.
C6_RaisingFileSkipped ==
    pc = "done" =>
        LET parsed == Parsed
            raised == {n \in DOMAIN parsed : parsed[n].kind = "raise"}
        IN  /\ idx = Len(pdf_files)
            /\ \A n \in raised :
                  /\ \A r \in Retained(all_reports) : r.filename # pdf_files[n]
                  /\ ~ HasRow(pdf_files[n])
            /\ \A n \in Ok(parsed) : HasKey(all_reports, ReportKey(parsed[n].data))
            /\ runs = 1 =>
                  [lists |-> [report_summaries |-> report_summaries,
                              contributions |-> contributions,
                              expenditures |-> expenditures],
                   csv |-> csv]
                     = FirstCall(SelectSeq(pdf_files, LAMBDA f : ~ folder[f].broken))

\* a first call has returned that met a raising file and, after it, a file whose report
\* is in the output
C6_Witness ==
    /\ pc = "done" /\ runs = 1
    /\ \E n, m \in 1..Len(pdf_files) :
          /\ n < m
          /\ folder[pdf_files[n]].broken
          /\ Forwarded(pdf_files[m])

\* C7: when the second of two calls of extract_all_data over an unchanged folder of
\* dated cover pages has returned, the three lists are what they were when the first
\* call had returned.
C7_SecondCallSameLists ==
    pc = "done" /\ runs = 2 /\ Dated =>
        [report_summaries |-> report_summaries, contributions |-> contributions,
         expenditures |-> expenditures] = FirstCall(pdf_files).lists

\* C8: when extract_all_data has returned, each of the three CSV files has been
\* written, and the file of a list without rows holds the list's column header and no
\* row, the file of report_summaries included.
C8_ThreeFilesAlways ==
    pc = "done" =>
        /\ {"FHF_report_summaries.csv", "FHF_contributions_received.csv",
            "FHF_expenditures_made.csv"} \subseteq DOMAIN csv
        /\ report_summaries = <<>> =>
              csv["FHF_report_summaries.csv"] =
                 EmptyFrame(<<"filename", "committee_name", "report_type", "period_from",
                              "period_through", "file_date", "is_amendment",
                              "money_on_hand_beginning", "money_on_hand_ending",
                              "total_receipts_period", "total_expenditures_period",
                              "monetary_receipts_period">>)
        /\ contributions = <<>> =>
              csv["FHF_contributions_received.csv"] = EmptyFrame(ContributionsHeader)
        /\ expenditures = <<>> =>
              csv["FHF_expenditures_made.csv"] = EmptyFrame(ExpendituresHeader)

\* C9: when extract_all_data has returned, the columns of the contributions file and
\* of the expenditures file are the schema's, filename first, with rows and without.
C9_SchemaColumnOrder ==
    pc = "done" =>
        /\ csv["FHF_contributions_received.csv"].columns = ContributionsHeader
        /\ csv["FHF_expenditures_made.csv"].columns = ExpendituresHeader

-----------------------------------------------------------------------------
(* Properties of the table parsers, stated over SpecTables.                *)

\* the amount of a record of the table being parsed
AmountOf(record) ==
    IF tbl.kind = "contributions" THEN Field(record, "individual_amount")
    ELSE Field(record, "amount")

\* C5: every record a table parser has made has an amount above zero, and a window that
\* ends without an amount, or with an amount that is zero (as parse_amount gives for a
\* text that is no number), adds no record.
C5_EmittedAmountsPositive ==
    /\ [](\A r \in 1..Len(tbl.out) : Positive(AmountOf(tbl.out[r])))
    /\ [][(/\ tbl.pc = "window" /\ tbl'.pc = "outer"
           /\ ~ ("amount" \in DOMAIN tbl.data /\ Positive(tbl.data.amount)))
          => tbl'.out = tbl.out]_vars

\* a window has ended with a captured amount of zero and no record was made of it
C5_Witness ==
    /\ tbl.pc = "outer" /\ tbl.i = tbl.j /\ tbl.i > 0
    /\ "amount" \in DOMAIN tbl.data /\ ~ Positive(tbl.data.amount)
    /\ tbl.out = <<>>

\* C10: in a window of the expenditures parser that comes to hold both a date line and
\* a purpose line, no line changes an amount above zero that an earlier line of the
\* window captured.
C10_FirstAmountKept ==
    [][(/\ tbl.kind = "expenditures" /\ tbl.pc = "window" /\ tbl'.pc = "window"
        /\ "amount" \in DOMAIN tbl.data /\ Positive(tbl.data.amount)
        /\ {"date", "purpose"} \subseteq DOMAIN tbl'.data)
       => tbl'.data.amount = tbl.data.amount]_vars


\* the stripped lines the window of the candidate under assembly has gone through
Scanned == {Strip(tbl.lines[k]) : k \in (tbl.i + 2)..tbl.j}

\* the record the step has appended
Emitted == tbl'.out[Len(tbl'.out)]

\* C11: when a window ends, a candidate none of whose window lines holds a date
\* (nor, for expenditures, matches purpose+amount) adds no record, whatever address
\* and city/state/zip lines were taken; and a candidate with a positive amount adds
\* one record, in which every field that was not found is the empty string.
C11_AmountDecidesRecord ==
    [][(tbl.pc = "window" /\ tbl'.pc = "outer") =>
          /\ (/\ \A l \in Scanned : DateSearch(l) = <<>>
              /\ tbl.kind = "expenditures" => \A l \in Scanned : PurposeMatch(l) = <<>>)
                => tbl'.out = tbl.out
          /\ ("amount" \in DOMAIN tbl.data /\ Positive(tbl.data.amount)) =>
                /\ Len(tbl'.out) = Len(tbl.out) + 1
                /\ SubSeq(tbl'.out, 1, Len(tbl.out)) = tbl.out
                /\ {"address", "city_state"} \cap DOMAIN tbl.data = {} =>
                      Field(Emitted, IF tbl.kind = "contributions" THEN "contributor_address"
                                     ELSE "recipient_address") = <<>>
                /\ "date" \notin DOMAIN tbl.data =>
                      Field(Emitted, IF tbl.kind = "contributions" THEN "date_received"
                                     ELSE "date_paid") = <<>>
                /\ (tbl.kind = "contributions" /\ "employer" \notin DOMAIN tbl.data) =>
                      Field(Emitted, "employer") = <<>>
                /\ (tbl.kind = "contributions" /\ "occupation" \notin DOMAIN tbl.data) =>
                      Field(Emitted, "occupation") = <<>>
                /\ (tbl.kind = "expenditures" /\ "purpose" \notin DOMAIN tbl.data) =>
                      Field(Emitted, "purpose") = <<>>]_vars

\* an expenditure whose window gave an amount and neither an address nor a date
\* has been emitted
C11_Witness ==
    /\ tbl.kind = "expenditures" /\ tbl.pc = "outer" /\ tbl.i = tbl.j /\ tbl.i > 0
    /\ DOMAIN tbl.data = {"vendor", "purpose", "amount"}
    /\ Len(tbl.out) = 1
    /\ Field(tbl.out[1], "recipient_address") = <<>>
    /\ Field(tbl.out[1], "date_paid") = <<>>


\* whether a text is a decimal numeral: digits with at most one point
IsNumeral(r) ==
    /\ \A k \in 1..Len(r) : r[k] \in Digit \cup {"."}
    /\ Cardinality({k \in 1..Len(r) : r[k] = "."}) <= 1
    /\ \E k \in 1..Len(r) : r[k] \in Digit

\* the number a decimal numeral denotes
NumeralValue(r) ==
    LET digits == SelectSeq(r, LAMBDA c : c # ".")
        point  == {k \in 1..Len(r) : r[k] = "."}
    IN  Normal(DigitsVal(digits), IF point = {} THEN 0 ELSE Len(r) - MinOf(point))

\* C12: parse_amount returns for every text the number that the text denotes once
\* every ',' and '$' is removed, when what is left is a number, and 0 for the empty
\* text and for every other text.
C12_ParseAmountTotal ==
    (call.fn = "parse_amount" /\ call.pc = "return") =>
        LET residue == SelectSeq(call.arg, LAMBDA c : c \notin {",", "$"})
        IN  call.result = IF IsNumeral(residue) THEN NumeralValue(residue) ELSE Zero


\* a parse_cover_page call that has returned
Returned == call.fn = "parse_cover_page" /\ call.pc = "return"

QuarterlyPhrase ==
    <<"C","O","M","M","I","T","T","E","E"," ","Q","U","A","R","T","E","R","L","Y"," ","R","E","P",
      "O","R","T">>

HasAmendWord(text) ==
    \/ Contains(text, <<"A","M","E","N","D","E","D">>)
    \/ Contains(text, <<"A","M","E","N","D","I","N","G">>)

Unknown == <<"U","n","k","n","o","w","n">>

Quarterly == <<"Q","u","a","r","t","e","r","l","y">>

QuarterlyAmended == <<"Q","u","a","r","t","e","r","l","y"," ","(","A","m","e","n","d","e","d",")">>

\* C13: parse_cover_page gives report_type Quarterly exactly for the texts with the
\* quarterly-report phrase, Quarterly (Amended) exactly for the other texts with
\* AMENDED or AMENDING, and Unknown for the rest; is_amendment exactly for the texts
\* with AMENDED or AMENDING; and a text with the phrase and the period
\* FROM 01/01/2025 THROUGH 03/31/2025 has the identity (Quarterly, 01/01/2025, 03/31/2025).
C13_ReportTypeByPhrase ==
    Returned =>
        LET text   == call.arg
            data   == call.result
            phrase == Contains(text, QuarterlyPhrase)
        IN  /\ data.report_type = Quarterly <=> phrase
            /\ data.report_type = QuarterlyAmended <=> (~ phrase /\ HasAmendWord(text))
            /\ data.report_type = Unknown <=> (~ phrase /\ ~ HasAmendWord(text))
            /\ data.is_amendment <=> HasAmendWord(text)
            /\ (phrase /\ Contains(text, CoverParts[4])) =>
                  ReportKey(data) = <<Quarterly, <<"0","1","/","0","1","/","2","0","2","5">>,
                                      <<"0","3","/","3","1","/","2","0","2","5">> >>

\* a text with AMENDED and without the quarterly phrase has been parsed as an amendment
\* of type Quarterly (Amended)
C13_Witness ==
    /\ Returned
    /\ Contains(call.arg, <<"A","M","E","N","D","E","D">>)
    /\ ~ Contains(call.arg, QuarterlyPhrase)
    /\ call.result.is_amendment
    /\ call.result.report_type = QuarterlyAmended

\* C14 as claimed: some cover page text is parsed with report_type Unknown and
\* is_amendment True.
C14_UnknownAmendmentLegal ==
    \E text \in CoverTexts :
        LET data == parse_cover_page(text, Now(clock))
        IN  data.report_type = Unknown /\ data.is_amendment

\* C14: parse_cover_page never returns report_type Unknown together with is_amendment
\* True: Unknown is returned only for a text without AMENDED and AMENDING, for which
\* is_amendment is False; an amendment is of type Quarterly or Quarterly (Amended).
C14_UnknownNeverAmendment ==
    Returned =>
        /\ ~ (call.result.report_type = Unknown /\ call.result.is_amendment)
        /\ call.result.is_amendment =>
              call.result.report_type \in {Quarterly, QuarterlyAmended}

\* a text with the quarterly phrase and AMENDED has been parsed: an amendment of type
\* Quarterly
C14_Witness ==
    /\ Returned
    /\ call.result.is_amendment
    /\ call.result.report_type = Quarterly


\* the report ids of the download attempts made for the year the scraper is at
Attempted == [k \in 1..Len(scraper.attempts) |-> scraper.attempts[k].report_id]

\* C15: for the year the scraper is at, at most max_downloads downloads are attempted,
\* they go, in order, to the first distinct report links of the year, a failed attempt
\* adds none, and none is attempted when max_downloads <= 0; when the year is over,
\* the first max_downloads distinct links (all of them, if fewer) have been attempted
\* once each.
C15_DownloadsCapped ==
    scraper.pc \in {"years", "downloads", "done"} =>
        /\ Len(scraper.attempts) <= MaxOf({0, scraper.max_downloads})
        /\ Len(scraper.attempts) <= Len(scraper.unique)
        /\ Attempted = SubSeq(scraper.unique, 1, Len(scraper.attempts))
        /\ scraper.max_downloads <= 0 => scraper.attempts = <<>>
        /\ (scraper.pc = "downloads" /\ scraper.queue = <<>>) =>
              Len(scraper.attempts) =
                  MinOf({Len(scraper.unique), MaxOf({0, scraper.max_downloads})})

\* a year with more distinct links than max_downloads is over, its downloads all failed,
\* and max_downloads downloads have been attempted
C15_Witness ==
    /\ scraper.pc = "downloads" /\ scraper.queue = <<>>
    /\ scraper.max_downloads > 0
    /\ Len(scraper.unique) > scraper.max_downloads
    /\ Len(scraper.attempts) = scraper.max_downloads
    /\ \A k \in 1..Len(scraper.attempts) : scraper.attempts[k].outcome # "file"


\* C16: when the window of a candidate at line i ends, it has gone through the
\* ContribWindow (contributions) or ExpendWindow (expenditures) lines after line i,
\* or through all the lines after line i where the page has fewer.
C16_WindowSize ==
    [][(tbl.pc = "window" /\ tbl'.pc = "outer") =>
          tbl.j - (tbl.i + 1) =
              MinOf({IF tbl.kind = "contributions" THEN ContribWindow ELSE ExpendWindow,
                     Len(tbl.lines) - (tbl.i + 1)})]_vars


\* the stripped line that a pass of the inner loop looks at
NextLine == Strip(tbl.lines[tbl.j + 1])

\* a pass of the inner loop of either parser
WindowPass == tbl.pc = "window" /\ tbl'.pc = "window"

\* a pass of the inner loop in which the date of the record is captured for the first time
DateCaptured == WindowPass /\ "date" \notin DOMAIN tbl.data /\ "date" \in DOMAIN tbl'.data

\* a line without its first date
WithoutDate(line) ==
    LET date == DateSearch(line)
        at   == MinOf(Occurrences(line, date))
    IN  IF date = <<>> THEN line
        ELSE SubSeq(line, 1, at - 1) \o SubSeq(line, at + Len(date), Len(line))

\* C17: in the contributions parser, once a window has captured a date, no later
\* line of the window changes the date, nor the amount captured with it.
C17_FirstDateKept ==
    [][(tbl.kind = "contributions" /\ WindowPass /\ "date" \in DOMAIN tbl.data) =>
          /\ tbl'.data.date = tbl.data.date
          /\ "amount" \in DOMAIN tbl.data =>
                ("amount" \in DOMAIN tbl'.data /\ tbl'.data.amount = tbl.data.amount)]_vars

\* C18: in both parsers, a window line that matches the address pattern when the
\* address is filled, or the city/state/zip pattern when city/state/zip is filled,
\* changes no field of the record under assembly.
C18_FilledFieldLineIgnored ==
    [][(/\ WindowPass
        /\ \/ AddressMatch(NextLine) /\ "address" \in DOMAIN tbl.data
           \/ CityStateMatch(NextLine) /\ "city_state" \in DOMAIN tbl.data)
          => tbl'.data = tbl.data]_vars

\* C19: in both parsers, when the line that gives a window its date also holds a
\* positive amount outside the date, before the date or after it, and no amount was
\* captured before, the amount captured is that amount.
C19_SameLineAmount ==
    [][(/\ DateCaptured /\ "amount" \notin DOMAIN tbl.data
        /\ Positive(parse_amount(AmountSearch(WithoutDate(NextLine)))))
          => /\ "amount" \in DOMAIN tbl'.data
             /\ tbl'.data.amount = parse_amount(AmountSearch(WithoutDate(NextLine)))]_vars

\* C20: in the contributions parser, when the line that gives a window its date holds
\* nothing that can be an amount outside the date, the amount is that of the raw line
\* before it when that one is positive, and otherwise that of the raw line after it when
\* that one is positive.
C20_NeighbourLineAmount ==
    [][(/\ tbl.kind = "contributions" /\ DateCaptured /\ "amount" \notin DOMAIN tbl.data
        /\ AmountSearch(WithoutDate(NextLine)) = <<>>)
          => LET before == parse_amount(AmountSearch(tbl.lines[tbl.j]))
                 after  == parse_amount(AmountSearch(
                               IF tbl.j + 1 < Len(tbl.lines) THEN tbl.lines[tbl.j + 2]
                               ELSE <<>>))
             IN  IF Positive(before)
                     THEN "amount" \in DOMAIN tbl'.data /\ tbl'.data.amount = before
                 ELSE Positive(after) =>
                         ("amount" \in DOMAIN tbl'.data /\ tbl'.data.amount = after)]_vars


\* C21: when the window of a candidate ends, i becomes j, the end of the window,
\* with or without a record; i and j never go back; and a line taken as a candidate,
\* whose text becomes the name of the record, is at or after the end of every window
\* scanned before, so it was not a window line.
C21_CursorToWindowEnd ==
    [][/\ (tbl.pc = "window" /\ tbl'.pc = "outer") => (tbl'.i = tbl.j /\ tbl'.j = tbl.j)
       /\ (tbl.pc = "outer" /\ tbl'.pc = "window") =>
             /\ tbl.i >= tbl.j /\ tbl'.i = tbl.i /\ tbl'.j = tbl.i + 1
             /\ tbl'.data = IF tbl.kind = "contributions"
                            THEN [name |-> Strip(tbl.lines[tbl.i + 1])]
                            ELSE [vendor |-> Strip(tbl.lines[tbl.i + 1])]
       /\ (tbl.pc = "outer" /\ tbl'.pc = "outer") => (tbl'.i = tbl.i + 1 /\ tbl'.j = tbl.j)
       /\ tbl'.i >= tbl.i /\ tbl'.j >= tbl.j]_vars

\* a second candidate is under way after a window that gave a record and after one
\* line that was no candidate
C21_Witness ==
    /\ tbl.pc = "window" /\ tbl.i > 0 /\ tbl.j = tbl.i + 1
    /\ Len(tbl.out) = 1
    /\ Strip(tbl.lines[tbl.i]) = <<"x">>


\* the header test of the expenditures parser with PURPOSE as one more excluded prefix
PrefixOnly(line) ==
    /\ Len(line) > MinHeaderLen /\ Len(line) < MaxHeaderLen
    /\ ~ \E p \in ExpendLabelPrefixes \cup {<<"P","U","R","P","O","S","E">>} :
           StartsWith(line, p)
    /\ ~ Contains(line, <<"S","U","B","T","O","T","A","L">>)
    /\ ~ Contains(line, <<"T","O","T","A","L">>)

\* C22: in the expenditures parser the trimmed line at i is taken as a candidate
\* header exactly when its length is above 2 and below 100, it starts with none of
\* NAME:, ADDRESS:, CITY, $, PAID, INCURRED, PURPOSE and contains neither SUBTOTAL
\* nor TOTAL; a line that contains PURPOSE after its first character is a candidate
C22_PurposeOnlyAsPrefix ==
    [][(tbl.kind = "expenditures" /\ tbl.pc = "outer" /\ tbl.i < Len(tbl.lines)) =>
          ((tbl'.pc = "window") <=> PrefixOnly(Strip(tbl.lines[tbl.i + 1])))]_vars


\* text contains 'REPORT SUMMARY'
Marked(text) == Contains(text, <<"R","E","P","O","R","T"," ","S","U","M","M","A","R","Y">>)

\* what the claim gives for a metric on the page text: the figure of the first
\* pattern, else of the second, else nothing
FigureOf(text, metric) ==
    LET either(first, second) == IF first # <<>> THEN first ELSE second
    IN  either(MetricSearch(text, SummaryPatterns[metric][1]),
               MetricSearch(text, SummaryPatterns[metric][2]))

\* C23: the summary has exactly the metrics that the first page with the REPORT
\* SUMMARY marker gives, each with the figure of its first pattern when that matches
\* on the page and of its second pattern only otherwise; pages after it give
\* nothing, also when the first page with the marker gave no metric; with no page
\* with the marker the summary is empty
C23_FirstSummaryPageOnly ==
    (call.fn = "extract_summary_data" /\ call.pc = "return") =>
        LET marked == {n \in 1..Len(call.arg) : Marked(call.arg[n])}
            metrics == {SummaryMetrics[n] : n \in 1..Len(SummaryMetrics)}
        IN  IF marked = {} THEN call.result = <<>>
            ELSE LET text == call.arg[MinOf(marked)]
                 IN  /\ DOMAIN call.result = {m \in metrics : FigureOf(text, m) # <<>>}
                     /\ \A m \in DOMAIN call.result :
                           call.result[m] = parse_amount(FigureOf(text, m))

\* the first page with the marker has the second pattern's line, with 200.00, before
\* the first pattern's, with 100.00, and a later page with the marker has a figure
\* for another metric
C23_Witness ==
    /\ call.fn = "extract_summary_data" /\ call.pc = "return"
    /\ Len(call.arg) = 2
    /\ Marked(call.arg[1]) /\ Marked(call.arg[2])
    /\ MetricSearch(call.arg[1], SummaryPatterns["money_on_hand_beginning"][2]) # <<>>
    /\ MetricSearch(call.arg[2], SummaryPatterns["money_on_hand_ending"][1]) # <<>>
    /\ DOMAIN call.result = {"money_on_hand_beginning"}
    /\ call.result["money_on_hand_beginning"] = [n |-> 100, k |-> 0]


\* the five metric columns of a report-summary row
RowMetrics ==
    {"money_on_hand_beginning", "money_on_hand_ending", "total_receipts_period",
     "total_expenditures_period", "monetary_receipts_period"}

\* the summary extract_summary_data gives for the PDF
SummaryOfPdf(pdf) == extract_summary_data(SelectSeq(pdf.pages, LAMBDA text : text # <<>>))

\* C24: when extract_all_data has returned, every row of report_summaries has a
\* number for each of the five metrics;
\* a metric that the summary of the row's file lacks is 0.0, and that is every metric
\* when no page has the marker; total_receipts_period is 0.0 in every row
C24_MetricsDefaultZero ==
    pc = "done" =>
        \A r \in 1..Len(report_summaries) :
           LET holds(row, summary) ==
                   /\ \A m \in RowMetrics :
                         /\ DOMAIN Field(row, m) = {"n", "k"}
                         /\ Field(row, m).n \in Nat /\ Field(row, m).k \in Nat
                         /\ m \notin DOMAIN summary => Field(row, m) = Zero
                         /\ m \in DOMAIN summary => Field(row, m) = summary[m]
                   /\ Field(row, "total_receipts_period") = Zero
           IN  holds(report_summaries[r],
                     SummaryOfPdf(folder[Field(report_summaries[r], "filename")]))

\* a row of a file with a summary page that gives one metric, and a row of a file
\* with no summary page
C24_Witness ==
    \E r, q \in 1..Len(report_summaries) :
       /\ DOMAIN SummaryOfPdf(folder[Field(report_summaries[r], "filename")])
             = {"money_on_hand_ending"}
       /\ Field(report_summaries[r], "money_on_hand_ending") = [n |-> 12505, k |-> 1]
       /\ Field(report_summaries[r], "money_on_hand_beginning") = Zero
       /\ SummaryOfPdf(folder[Field(report_summaries[q], "filename")]) = <<>>


\* C25: file_date is the date of the first M/D/YYYY-shaped substring of the cover
\* text when that is a date of the calendar; with no such substring, or when the
\* first one is no date of the calendar, it is the time of processing, whatever
\* dates follow in the text
C25_FirstDateOrNow ==
    (call.fn = "parse_cover_page" /\ call.pc = "return") =>
        LET shaped == {k \in 1..Len(call.arg) : DateAt(call.arg, k) > 0}
            first == IF shaped = {} THEN <<>>
                     ELSE Split(SubSeq(call.arg, MinOf(shaped),
                                       MinOf(shaped) + DateAt(call.arg, MinOf(shaped)) - 1),
                                <<"/">>)
            valid == /\ first # <<>>
                     /\ DigitsVal(first[1]) \in 1..12
                     /\ DigitsVal(first[3]) >= 1
                     /\ DigitsVal(first[2]) \in
                           1..DaysInMonth(DigitsVal(first[3]), DigitsVal(first[1]))
        IN  IF valid
            THEN /\ call.result.file_date =
                       <<DigitsVal(first[3]), DigitsVal(first[1]), DigitsVal(first[2]), 0>>
                 /\ clock = 0
            ELSE /\ call.result.file_date = Now(clock - 1)
                 /\ clock = 1

\* the cover text starts with '13/01/2025', a date-shaped text strptime rejects, and
\* holds the date 4/10/2025 after it; file_date is the time of processing
C25_Witness ==
    /\ call.fn = "parse_cover_page" /\ call.pc = "return"
    /\ DateAt(call.arg, 1) = 10 /\ ~ Strptime(SubSeq(call.arg, 1, 10)).ok
    /\ \E k \in 11..Len(call.arg) :
          /\ DateAt(call.arg, k) > 0
          /\ Strptime(SubSeq(call.arg, k, k + DateAt(call.arg, k) - 1)).ok
    /\ call.result.file_date = Now(0)


\* row is the record with the filename and the period bounds of report rep added
Decorated(row, rep, record, own) ==
    /\ Field(row, "filename") = rep.filename
    /\ Field(row, "report_period_from") = rep.period_from
    /\ Field(row, "report_period_through") = rep.period_through
    /\ {row[n][1] : n \in 1..Len(row)} =
          {record[n][1] : n \in 1..Len(record)}
             \cup {"filename", "report_period_from", "report_period_through"}
    /\ \A n \in 1..Len(record) :
          record[n][1] \notin own => Field(row, record[n][1]) = record[n][2]

\* C26: when extract_all_data has returned, every row of contributions and of
\* expenditures is a record of a report that all_reports retains and that has a row
\* in report_summaries, with the filename and the period bounds of that report; an
\* expenditure row has the record's date_paid when the record has one, and the
\* report's period_from when it has none
C26_RowsOfRetainedReports ==
    pc = "done" =>
        /\ \A r \in 1..Len(contributions) :
              \E k \in 1..Len(all_reports) :
                 /\ Forwarded(all_reports[k][2].filename)
                 /\ \E c \in 1..Len(all_reports[k][2].contributions) :
                       Decorated(contributions[r], all_reports[k][2],
                                 all_reports[k][2].contributions[c], {})
        /\ \A r \in 1..Len(expenditures) :
              \E k \in 1..Len(all_reports) :
                 /\ Forwarded(all_reports[k][2].filename)
                 /\ \E e \in 1..Len(all_reports[k][2].expenditures) :
                       LET expense == all_reports[k][2].expenditures[e]
                       IN  /\ Decorated(expenditures[r], all_reports[k][2], expense,
                                        {"date_paid"})
                           /\ Field(expenditures[r], "date_paid") =
                                 IF Field(expense, "date_paid") = <<>>
                                 THEN all_reports[k][2].period_from
                                 ELSE Field(expense, "date_paid")

\* the output has an expenditure row whose record had no date, with the period start
\* 1/1/2025 as date_paid, and an expenditure row with its record's date 3/1/2025
C26_Witness ==
    /\ pc = "done"
    /\ \E k \in 1..Len(all_reports) : \E r \in 1..Len(expenditures) :
          /\ Len(all_reports[k][2].expenditures) = 1
          /\ Field(all_reports[k][2].expenditures[1], "date_paid") = <<>>
          /\ Field(expenditures[r], "filename") = all_reports[k][2].filename
          /\ Field(expenditures[r], "date_paid") = <<"1","/","1","/","2","0","2","5">>
    /\ \E r \in 1..Len(expenditures) :
          Field(expenditures[r], "date_paid") = <<"3","/","1","/","2","0","2","5">>


\* the pages of the PDF that give text
TextPages(pdf) == {p \in 1..Len(pdf.pages) : pdf.pages[p] # <<>>}

\* the identity key that the cover text gives
KeyOfCover(text) ==
    <<ReportType(text)>> \o (IF PeriodSearch(text) = <<>> THEN << <<>>, <<>> >>
                             ELSE PeriodSearch(text))

\* C27: when extract_all_data has returned, a PDF that opens and has no page with
\* text gave None: it has no entry in all_reports and no row in any list; one that
\* has a page with text gave a report, so all_reports has the key of the first page
\* with text, also when that is not page 1; and every report in all_reports holds
\* the pages with text of its file in page order, with the cover fields of the first
\* of them
C27_NoneWithoutText ==
    pc = "done" =>
        /\ \A n \in 1..idx :
              LET pdf == folder[pdf_files[n]]
              IN  ~ pdf.broken =>
                     IF TextPages(pdf) = {}
                     THEN /\ \A k \in 1..Len(all_reports) :
                                all_reports[k][2].filename # pdf_files[n]
                          /\ ~ HasRow(pdf_files[n])
                     ELSE HasKey(all_reports, KeyOfCover(pdf.pages[MinOf(TextPages(pdf))]))
        /\ \A k \in 1..Len(all_reports) :
              LET holds(rep, pdf, first) ==
                      /\ Len(rep.pages) = Cardinality(TextPages(pdf))
                      /\ \A t \in 1..Len(rep.pages) :
                            /\ rep.pages[t] \in TextPages(pdf)
                            /\ rep.text_content[t] = pdf.pages[rep.pages[t]]
                            /\ t > 1 => rep.pages[t - 1] < rep.pages[t]
                      /\ all_reports[k][1] = KeyOfCover(first)
                      /\ ReportKey(rep) = KeyOfCover(first)
                      /\ rep.is_amendment = IsAmendment(first)
                      /\ UsesNow(first) <=> rep.file_date[1] = 2026
                  of(pdf) ==
                      /\ TextPages(pdf) # {}
                      /\ holds(all_reports[k][2], pdf, pdf.pages[MinOf(TextPages(pdf))])
              IN  of(folder[all_reports[k][2].filename])

\* extract_all_data has returned over a folder with a PDF without text and a PDF
\* whose page 1 gives no text and whose page 2 is a cover with a period: only the
\* second has rows, with the period of its page 2
C27_Witness ==
    /\ pc = "done"
    /\ \E n, m \in 1..idx :
          /\ ~ folder[pdf_files[n]].broken /\ Len(folder[pdf_files[n]].pages) = 2
          /\ TextPages(folder[pdf_files[n]]) = {}
          /\ ~ HasRow(pdf_files[n])
          /\ TextPages(folder[pdf_files[m]]) = {2, 3}
          /\ \E r \in 1..Len(report_summaries) :
                /\ Field(report_summaries[r], "filename") = pdf_files[m]
                /\ Field(report_summaries[r], "period_from") =
                      <<"1","/","1","/","2","0","2","5">>


\* C28: every call of the two table parsers returns; each pass of the outer loop
\* moves i up, by one for a line that is no candidate and to the window end j, at
\* least i + 1 and at most the number of lines, for a candidate, the last line of
\* the page included
C28_CursorIncreasesAndReturns ==
    /\ [][/\ (tbl.pc = "outer" /\ tbl'.pc = "outer") => tbl'.i = tbl.i + 1
          /\ (tbl.pc = "window" /\ tbl'.pc = "outer") =>
                /\ tbl'.i = tbl.j
                /\ tbl.j >= tbl.i + 1 /\ tbl.j <= Len(tbl.lines)
          /\ (tbl.pc = "outer" /\ tbl'.pc = "window") => tbl.i < Len(tbl.lines)
          /\ tbl'.pc = "return" => tbl.i = Len(tbl.lines)]_vars
    /\ <>(tbl.pc = "return")

\* a call has returned whose last line was taken as a candidate, with an empty window
C28_Witness ==
    /\ tbl.pc = "return"
    /\ tbl.j = Len(tbl.lines) /\ tbl.i = tbl.j
    /\ tbl.data \in { [name |-> Strip(tbl.lines[Len(tbl.lines)])],
                      [vendor |-> Strip(tbl.lines[Len(tbl.lines)])] }


\* the name of a record of either table
NameOf(record) ==
    IF \E n \in 1..Len(record) : record[n][1] = "contributor_name"
    THEN Field(record, "contributor_name") ELSE Field(record, "recipient_name")

\* the least distance of the candidates of two records of the call
Spacing == IF tbl.kind = "contributions" THEN ContribWindow ELSE ExpendWindow

\* C29: the records of a call are at most ceil(N / 10) for a contributions page of N
\* lines and ceil(N / 15) for an expenditures page; two records have the names of
\* lines at least 10, resp. 15, lines apart; and a line taken as a candidate is at
\* least that far after the candidate of each record before it, so it is not in the
\* window of one of them
C29_RecordsSpacedByWindow ==
    tbl.kind \in {"contributions", "expenditures"} =>
        /\ Len(tbl.out) * Spacing < Len(tbl.lines) + Spacing
        /\ \A a, b \in 1..Len(tbl.out) :
              a < b => \E p, q \in 1..Len(tbl.lines) :
                          /\ q - p >= Spacing
                          /\ Strip(tbl.lines[p]) = NameOf(tbl.out[a])
                          /\ Strip(tbl.lines[q]) = NameOf(tbl.out[b])
        /\ tbl.pc = "window" => tbl.i >= Spacing * Len(tbl.out)

\* a contributions call has returned two records, the second for the name line 'JANE
\* DOE' ten lines after the first name line
C29_Witness ==
    /\ tbl.kind = "contributions" /\ tbl.pc = "return"
    /\ Len(tbl.out) = 2
    /\ NameOf(tbl.out[2]) = <<"J","A","N","E"," ","D","O","E">>
    /\ Strip(tbl.lines[11]) = <<"J","A","N","E"," ","D","O","E">>


\* at the start the downloads directory holds a PDF of the report id: a file whose
\* name ends in the id and '.pdf', with no digit before the id
AtStart(report_id) ==
    \E f \in step8.start :
       LET from == Len(f) - 4 - Len(report_id)
       IN  /\ from >= 0
           /\ SubSeq(f, from + 1, Len(f)) = report_id \o <<".","p","d","f">>
           /\ from > 0 => f[from] \notin Digit

\* a download of the report id has succeeded in a year before the y-th
DownloadedBefore(report_id, y) ==
    \E a \in 1..Len(step8.attempts) :
       /\ step8.attempts[a].report_id = report_id
       /\ step8.attempts[a].success /\ step8.attempts[a].y < y

\* C30: in a multi-year run no download is attempted for an id of five or more
\* digits whose PDF is in the downloads directory at the start; an id whose download
\* succeeded is in existing_ids and no download of it is attempted in a later year;
\* an id whose downloads all failed, with no PDF at the start, is not in existing_ids,
\* and when a later year shows its link it is among the links to download
C30_ExistingIdsSkipped ==
    /\ \A a \in 1..Len(step8.attempts) :
          LET try == step8.attempts[a]
          IN  /\ ~ AtStart(try.report_id)
              /\ try.success =>
                    /\ try.report_id \in step8.existing_ids
                    /\ \A b \in 1..Len(step8.attempts) :
                          step8.attempts[b].report_id = try.report_id =>
                             step8.attempts[b].y <= try.y
              /\ (\A b \in 1..Len(step8.attempts) :
                     step8.attempts[b].report_id = try.report_id =>
                        ~ step8.attempts[b].success)
                    => try.report_id \notin step8.existing_ids
    /\ step8.pc = "download" =>
          \A n \in 1..Len(step8.potential) :
             LET report_id == step8.potential[n]
             IN  (\E m \in 1..Len(step8.new_report_links) :
                     step8.new_report_links[m] = report_id)
                 <=> ~ (AtStart(report_id) \/ DownloadedBefore(report_id, step8.y + 1))

\* the run has returned; in the first year one id failed and another was downloaded,
\* and in the second year, whose page showed both links, only the failed one was
\* tried again
C30_Witness ==
    /\ step8.pc = "done"
    /\ Len(step8.potential) = 2 /\ Len(step8.new_report_links) = 1
    /\ \E a, b, c \in 1..Len(step8.attempts) :
          /\ step8.attempts[a].y = 1 /\ ~ step8.attempts[a].success
          /\ step8.attempts[b].y = 2
          /\ step8.attempts[b].report_id = step8.attempts[a].report_id
          /\ step8.attempts[c].y = 1 /\ step8.attempts[c].success
          /\ \E n \in 1..2 : step8.potential[n] = step8.attempts[c].report_id
          /\ \A d \in 1..Len(step8.attempts) :
                step8.attempts[d].report_id = step8.attempts[c].report_id => d = c

=============================================================================
